---- MODULE Spec2Model ----
(***************************************************************************)
(* A model of the agent runtime of obsidian-copilot:                       *)
(*   - AgentManager.execute_agent            (src/src/agents.py)           *)
(*   - AgentScheduler: history, jobs, loops  (src/src/scheduler.py)        *)
(*   - CircuitBreaker                        (src/src/utils/retry.py)      *)
(* Everything runs on one asyncio event loop: the code between two awaits  *)
(* is one atomic step, and every action below is one such step.            *)
(***************************************************************************)
EXTENDS Integers, Sequences, FiniteSets, TLC

(***************************************************************************)
(* Bounds of the model.                                                    *)
(***************************************************************************)
\* Number of store_memory and of recall_memories calls in one behaviour,
\* and the largest limit passed to recall_memories.
MaxPaths == 2
MaxHealthCalls == 3
MaxEntries == 3
MaxGenerations == 2
MaxHits == 2
MaxBudget == 6
MaxStores == 3

MaxRecalls == 1

MaxLimit == 2

\* Number of execute_agent calls on the enhanced manager in one behaviour,
\* those made by execute_agents_parallel included.
MaxEnhCalls == 2

\* Number of execute_agents_parallel calls that dispatch a task in one
\* behaviour.
MaxParallelCalls == 2

\* Number of tasks in one batch of ParallelExecutor.execute_parallel.
MaxBatch == 2

\* Number of batches executed in one behaviour.
MaxBatches == 2

\* retry_with_backoff is applied with max_retries in 0 .. MaxRetries.
MaxRetries == 2

\* Number of calls of one retrying wrapper in one behaviour.
MaxRetryCalls == 2

\* Number of execute_agent invocations in one behaviour.
MaxCalls == 3

\* Number of firings (by jobs and monitoring loops) while the scheduler is
\* observed from start() on.
MaxFirings == 2

\* Number of callers that go through one circuit breaker concurrently.
MaxBreakerCalls == 2

\* The clock runs from 0 to MaxTime (seconds).
MaxTime == 3

\* The breaker is constructed with failure_threshold in 1 .. MaxThreshold
\* and recovery_timeout in 1 .. MaxRecovery.
MaxThreshold == 2

MaxRecovery == 2

\* Cap on CircuitBreaker.failure_count, which the code never bounds.
MaxFailures == 4

\* Calls of learn_from_execution, memories stored for the source agent of
\* a sharing, and documents of an analysed vault.
MaxLearnCalls == 5

MaxShareStores == 3

MaxDocs == 2

(***************************************************************************)
(* Program constants.                                                      *)
(***************************************************************************)
\* AgentScheduler.max_history (scheduler.py:37).  The source value is 1000;
\* the model keeps the comparison and the slice of record_execution and
\* scales the number so that a full history is reachable.
max_history == 2

\* trigger_config['check_interval'] of the continuous agent, in seconds
\* (scheduler.py:135; 300 when the configuration does not set it).
check_interval == 2

\* HealthChecker.health_check_interval, in seconds (utils/retry.py:210).  The
\* source value is 30.0; the model keeps the comparison and scales the
\* number to the clock.
health_check_interval == 2

\* trigger_config['debounce_ms'] of the context-aware agent (scheduler.py:164).
debounce_ms == 2000

(***************************************************************************)
(* The roster (the configuration file read by AgentManager.load_config).   *)
(* "research-assistant" is configured with enabled = false.                *)
(***************************************************************************)
Roster == {"vault-analyzer", "context-optimizer", "suggestion-engine",
           "research-assistant"}

Enabled(n) == n # "research-assistant"

\* config.trigger['type'] of each agent.
Trigger(n) ==
    CASE n = "vault-analyzer"    -> "schedule"
      [] n = "context-optimizer" -> "continuous"
      [] n = "suggestion-engine" -> "context_aware"
      [] OTHER                   -> "on_demand"

\* The names callers pass to execute_agent, execute_scheduled_agent and
\* trigger_agent; the other two agents are fired by their monitoring loops.
RequestNames == {"vault-analyzer", "research-assistant"}

\* AgentManager.initialize_agents: only enabled agents get an instance.
agents == {n \in Roster : Enabled(n)}

NoTask == 0

CallIds == 1 .. MaxCalls

\* The ways the task that runs agent.execute(request) can end while
\* execute_agent awaits it under asyncio.wait_for.
Outcomes == {"completed", "failed", "raised", "timeout"}

\* One invocation of execute_agent: where it is (pc), its request, whether it
\* created a task (launched), how that task ended (outcome), the response it
\* returned (status, error) and the exception that left it, if any (raised).
NoCall == [pc |-> "unused", name |-> "", origin |-> "", launched |-> FALSE,
           outcome |-> "none", status |-> "none", error |-> "none",
           raised |-> "none"]

VARIABLES
    running_agents,     \* AgentManager.running_agents: name -> task (NoTask: absent)
    agent_memory,       \* AgentManager.agent_memory: name -> list of records
    calls,              \* the execute_agent invocations made so far
    ncalls,             \* how many invocations have been made
    execution_history   \* AgentScheduler.execution_history

agentVars == <<running_agents, agent_memory, calls, ncalls, execution_history>>

VARIABLES
    scheduler_state,    \* the state of AgentScheduler.scheduler (APScheduler)
    monitoring_tasks,   \* AgentScheduler.monitoring_tasks: name -> stored value
    loops               \* the tasks start() creates, one per monitoring loop

schedVars == <<scheduler_state, monitoring_tasks, loops>>

VARIABLES
    failure_threshold,  \* CircuitBreaker.failure_threshold
    recovery_timeout,   \* CircuitBreaker.recovery_timeout
    state,              \* CircuitBreaker.state
    failure_count,      \* CircuitBreaker.failure_count
    last_failure_time,  \* CircuitBreaker.last_failure_time (None: never)
    wrapped,            \* the calls of the wrapper, one per concurrent caller
    streak              \* matching failures of func since its last success

breakerVars == <<failure_threshold, recovery_timeout, state, failure_count,
                 last_failure_time, wrapped, streak>>

VARIABLE
    now                 \* the wall clock (time.time(), datetime.utcnow()), in seconds

coreVars == <<agentVars, schedVars, breakerVars, now>>

VARIABLES
    max_retries,        \* retry_with_backoff: max_retries
    exceptions,         \* retry_with_backoff: the exception types retried on
    attempt,            \* the loop variable of the wrapper
    last_exception,     \* the wrapper's last_exception (NoException: None)
    retry_pc,           \* where the wrapper is
    func_log,           \* how each invocation of func by this call ended
    retry_raised,       \* the exception that left the wrapper
    delay,              \* the last computed delay, in milliseconds
    retry_calls         \* how many calls of the wrapper have been made

retryVars == <<max_retries, exceptions, attempt, last_exception, retry_pc,
               func_log, retry_raised, delay, retry_calls>>

VARIABLES
    submitted,          \* the tasks passed to execute_parallel, as passed
    batch,              \* the same list after tasks.sort
    task_names,         \* execute_parallel's task_names
    coroutines,         \* how the coroutine of each task has ended
    exec_result,        \* the map execute_parallel returned
    exec_raised,        \* the exception that left execute_parallel
    exec_pc,            \* where execute_parallel is
    exec_calls          \* how many batches have been executed

execVars == <<submitted, batch, task_names, coroutines, exec_result,
              exec_raised, exec_pc, exec_calls>>

VARIABLES
    redis_client,         \* EnhancedAgentManager.redis_client
    redis_initialized,    \* whether initialize_redis has been called
    redis,                \* the cache server: key -> text (NoEntry: absent)
    _memory_initialized,  \* EnhancedAgentManager._memory_initialized
    memory,               \* EnhancedAgentManager.memory: name -> list
    ecalls,               \* the execute_agent calls made so far
    necalls,              \* how many there are
    par                   \* the execute_agents_parallel call in progress

enhVars == <<redis_client, redis_initialized, redis, _memory_initialized,
             memory, ecalls, necalls, par>>

VARIABLES
    memory_client,        \* AgentMemory.memory_client
    _initialized,         \* AgentMemory._initialized
    cache,                \* AgentMemory.cache: key -> list (<<>>: absent)
    notes,                \* the notes written to the external note-store
    mstores,              \* the store_memory calls made so far
    nmstores,             \* how many there are
    recall,               \* the last recall_memories call
    nrecalls              \* how many recall_memories calls have been made

memVars == <<memory_client, _initialized, cache, notes, mstores, nmstores,
             recall, nrecalls>>

VARIABLES
    app,                  \* the application: created, starting, serving, failed
    boot,                 \* where initialize_all_services is
    services,             \* ServiceManager.services: key -> value ("absent")
    service_status,       \* ServiceManager.service_status
    services_initialized, \* ServiceManager._initialized
    circuit_breakers,     \* ServiceManager.circuit_breakers: name -> state
    failed                \* the steps whose function did not succeed

svcVars == <<app, boot, services, service_status, services_initialized,
             circuit_breakers, failed>>

VARIABLES
    assembly,             \* a context request and the bundle returned for it
    claude_code_path,     \* the environment variable CLAUDE_CODE_PATH
    generation,           \* the /generate request being served
    pattern_store,        \* a call of store_agent_patterns_parallel
    health,               \* a HealthChecker, its callers and its probes
    synthesis             \* the /synthesize_notes request being served

VARIABLES
    learning,             \* AgentMemory.learn_from_execution for one agent
    sharing,              \* AgentMemory.share_learning_between_agents
    tagging,              \* a vault and the result of _analyze_tags for it
    derivation            \* task results and the result of _generate_insights

backVars == <<retryVars, execVars, enhVars, memVars, svcVars>>

genVars == <<claude_code_path, generation>>

auxVars == <<learning, sharing, tagging, derivation>>

apiVars == <<assembly, genVars, pattern_store, health, synthesis, auxVars>>

otherVars == <<backVars, apiVars>>

vars == <<coreVars, otherVars>>

\* What the actions of one component leave alone.
notAgentVars == <<schedVars, breakerVars, now, otherVars>>

notSchedVars == <<breakerVars, now, otherVars>>

notBreakerVars == <<agentVars, schedVars, otherVars>>

notRetryVars == <<coreVars, execVars, enhVars, memVars, svcVars, apiVars>>

notExecVars == <<coreVars, retryVars, enhVars, memVars, svcVars, apiVars>>

notEnhVars == <<coreVars, retryVars, execVars, memVars, svcVars, apiVars>>

notMemVars == <<coreVars, retryVars, execVars, enhVars, svcVars, apiVars>>

notSvcVars == <<coreVars, retryVars, execVars, enhVars, memVars, apiVars>>

notCtxVars == <<coreVars, backVars, genVars, pattern_store, health, synthesis, auxVars>>

notGenVars == <<coreVars, backVars, assembly, pattern_store, health, synthesis, auxVars>>

notPatternVars == <<coreVars, backVars, assembly, genVars, health, synthesis, auxVars>>

notHealthVars == <<coreVars, backVars, assembly, genVars, pattern_store, synthesis, auxVars>>

notSynVars == <<coreVars, backVars, assembly, genVars, pattern_store, health, auxVars>>

notAuxVars == <<coreVars, backVars, assembly, genVars, pattern_store, health,
                synthesis>>

notLearnVars == <<notAuxVars, sharing, tagging, derivation>>

notShareVars == <<notAuxVars, learning, tagging, derivation>>

notTagVars == <<notAuxVars, learning, sharing, derivation>>

notDeriveVars == <<notAuxVars, learning, sharing, tagging>>

(***************************************************************************)
(* AgentScheduler.record_execution and the recording of trigger_agent.     *)
(***************************************************************************)
\* history[-max_history:]
LastN(h, k) == IF Len(h) > k THEN SubSeq(h, Len(h) - k + 1, Len(h)) ELSE h

Execution(c, n, trigger, status) ==
    [call |-> c, agent_name |-> n, trigger |-> trigger, status |-> status]

record_execution(h, c, n, status) ==
    LET appended == Append(h, Execution(c, n, "scheduled", status))
    IN  IF Len(appended) > max_history THEN LastN(appended, max_history)
        ELSE appended

trigger_agent_record(h, c, n, status) ==
    Append(h, Execution(c, n, "manual", status))

\* What the caller of execute_agent does with the response it got.
Recorded(h, c, n, origin, status) ==
    CASE origin = "scheduled" -> record_execution(h, c, n, status)
      [] origin = "manual"    -> trigger_agent_record(h, c, n, status)
      [] OTHER                -> h

(***************************************************************************)
(* AgentManager.execute_agent.                                             *)
(***************************************************************************)
\* A finally block that leaves the marker in place.
CleanUpKeeps(ra, n) == ra

\* The finally block: the marker of the name is deleted if it is present,
\* whoever put it there.
CleanUp(ra, n) == [ra EXCEPT ![n] = NoTask]

\* The exception wait_for raises for each way the task can end.
ExceptionOf(outcome) ==
    CASE outcome = "timeout" -> "TimeoutError"
      [] outcome = "raised"  -> "Exception"
      [] OTHER               -> "none"

\* The except clauses of execute_agent (agents.py:180-192): the first catches
\* asyncio.TimeoutError, the second every other Exception.  What no clause
\* catches leaves execute_agent.
Propagates(exc) ==
    IF exc \in {"none", "TimeoutError", "Exception"} THEN "none" ELSE exc

Returned(n, origin, launched, outcome, status, error) ==
    [pc |-> "returned", name |-> n, origin |-> origin, launched |-> launched,
     outcome |-> outcome, status |-> status, error |-> error,
     raised |-> Propagates(ExceptionOf(outcome))]

\* execute_agent from its entry to its first suspension (agents.py:134-169).
ExecuteAgentEntry(c, n, origin) ==
    IF n \notin agents
    THEN \* agents.get(name) is None: returned before the try block
         /\ calls' = [calls EXCEPT ![c] =
                Returned(n, origin, FALSE, "none", "failed", "not_found")]
         /\ execution_history' =
                Recorded(execution_history, c, n, origin, "failed")
         /\ UNCHANGED <<running_agents, agent_memory>>
    ELSE IF ~Enabled(n)
    THEN /\ calls' = [calls EXCEPT ![c] =
                Returned(n, origin, FALSE, "none", "disabled", "disabled")]
         /\ execution_history' =
                Recorded(execution_history, c, n, origin, "disabled")
         /\ UNCHANGED <<running_agents, agent_memory>>
    ELSE IF running_agents[n] # NoTask
    THEN \* return inside the try block: the finally block runs
         /\ calls' = [calls EXCEPT ![c] =
                Returned(n, origin, FALSE, "none", "running", "already_running")]
         /\ running_agents' = CleanUp(running_agents, n)
         /\ execution_history' =
                Recorded(execution_history, c, n, origin, "running")
         /\ UNCHANGED agent_memory
    ELSE \* create_task, register it, await wait_for(task, timeout)
         /\ calls' = [calls EXCEPT ![c] =
                [NoCall EXCEPT !.pc = "awaiting", !.name = n,
                               !.origin = origin, !.launched = TRUE]]
         /\ running_agents' = [running_agents EXCEPT ![n] = c]
         /\ UNCHANGED <<agent_memory, execution_history>>

\* The response execute_agent returns once the awaited task has ended.
ResponseStatus(outcome) ==
    IF outcome = "completed" THEN "completed" ELSE "failed"

\* The error text when the expiry is handled by the generic except clause.
ResponseErrorGeneric(outcome) ==
    CASE outcome = "completed" -> "none"
      [] outcome = "failed"    -> "agent_error"
      [] OTHER                 -> "exception"

\* Its error text: None on success, the agent's own message when
\* BaseAgent.execute caught a failure of run, "Agent execution timed out
\* after <timeout> seconds" on expiry, str(e) for any other exception.
ResponseError(outcome) ==
    CASE outcome = "completed" -> "none"
      [] outcome = "failed"    -> "agent_error"
      [] outcome = "raised"    -> "exception"
      [] outcome = "timeout"   -> "timed_out"

\* A store that keeps only the last max_history records of the agent.
StoredCapped(mem, c, n, outcome) ==
    IF outcome \in {"completed", "failed"}
    THEN [mem EXCEPT ![n] =
             LastN(Append(@, [call |-> c, status |-> ResponseStatus(outcome)]),
                   max_history)]
    ELSE mem

\* Only a result that wait_for hands back is stored (agents.py:171-176).
Stored(mem, c, n, outcome) ==
    IF outcome \in {"completed", "failed"}
    THEN [mem EXCEPT ![n] = Append(@, [call |-> c, status |-> ResponseStatus(outcome)])]
    ELSE mem

\* execute_agent from the end of the await to its return (agents.py:166-196).
ExecuteAgentResume(c, outcome) ==
    LET n == calls[c].name
        origin == calls[c].origin
    IN  /\ agent_memory' = Stored(agent_memory, c, n, outcome)
        /\ running_agents' = CleanUp(running_agents, n)
        /\ calls' = [calls EXCEPT ![c] =
               Returned(n, origin, TRUE, outcome, ResponseStatus(outcome),
                        ResponseError(outcome))]
        /\ execution_history' =
               Recorded(execution_history, c, n, origin, ResponseStatus(outcome))

(***************************************************************************)
(* The monitoring loops of AgentScheduler: their configuration and state.  *)
(***************************************************************************)
None == -1

\* setup_monitoring_agents: the enabled agents whose trigger is continuous
\* or context_aware get a monitor function in monitoring_tasks.
Loops == {n \in agents : Trigger(n) \in {"continuous", "context_aware"}}

\* trigger_config['conditions'] and trigger_config['monitors'].
Conditions(l) ==
    <<"cache_size_exceeded", "performance_degradation", "new_documents_detected">>

Monitors(l) == <<"active_note_changes", "query_patterns", "navigation_history">>

\* What get_cache_size, get_performance_metrics and check_new_documents
\* return.  The source holds stubs for them (0, {'latency_ms': 1000}, False);
\* the model keeps the first two and lets the vault gain new documents.
ConditionProbes ==
    [cache_size : {0}, latency_ms : {1000}, new_docs : {FALSE, TRUE}]

\* Whether get_active_note_changes, get_query_patterns and
\* get_navigation_history return something.  The source holds stubs that
\* return None (FALSE); the model lets the active note change.
MonitorProbes ==
    [active_note_changes : {FALSE, TRUE}, query_patterns : {FALSE},
     navigation_history : {FALSE}]

\* AgentScheduler.check_conditions
check_conditions(conditions, p) ==
    \E i \in DOMAIN conditions :
        \/ conditions[i] = "cache_size_exceeded" /\ p.cache_size > 500 * 1024 * 1024
        \/ conditions[i] = "performance_degradation" /\ p.latency_ms > 3000
        \/ conditions[i] = "new_documents_detected" /\ p.new_docs

\* AgentScheduler.check_monitors: the keys of the context; {} stands for None.
check_monitors(monitors, p) ==
    {monitors[i] : i \in {j \in DOMAIN monitors : p[monitors[j]]}}

\* One loop task: pc is "absent" before start() creates it, "sleeping"
\* while it awaits asyncio.sleep until wake, "firing" while it awaits
\* execute_scheduled_agent (its call), "done" after the break.
NoLoop == [pc |-> "absent", wake |-> 0, call |-> 0, last_trigger |-> None,
           current_time |-> None, cancel_requested |-> FALSE]

Sleeping(L, until) == [L EXCEPT !.pc = "sleeping", !.wake = until, !.call = 0]

\* The rest of an iteration after execute_scheduled_agent has returned at
\* time t: the continuous loop sleeps check_interval; the context-aware loop
\* sets last_trigger to the time of the trigger and sleeps one second.
AfterFire(l, L, t) ==
    IF Trigger(l) = "continuous"
    THEN Sleeping(L, t + check_interval)
    ELSE Sleeping([L EXCEPT !.last_trigger = L.current_time,
                            !.current_time = None], t + 1)


(***************************************************************************)
(* Actions of the manager and of the scheduler's two entry points.         *)
(***************************************************************************)
\* A caller invokes AgentManager.execute_agent directly.
execute_agent(n) ==
    /\ ncalls < MaxCalls
    /\ ncalls' = ncalls + 1
    /\ ExecuteAgentEntry(ncalls + 1, n, "direct")
    /\ UNCHANGED notAgentVars

\* A job of the scheduler fires AgentScheduler.execute_scheduled_agent.
execute_scheduled_agent(n) ==
    /\ ncalls < MaxCalls
    /\ ncalls' = ncalls + 1
    /\ ExecuteAgentEntry(ncalls + 1, n, "scheduled")
    /\ UNCHANGED notAgentVars

\* AgentScheduler.trigger_agent.
trigger_agent(n) ==
    /\ ncalls < MaxCalls
    /\ ncalls' = ncalls + 1
    /\ ExecuteAgentEntry(ncalls + 1, n, "manual")
    /\ UNCHANGED notAgentVars

\* execute_scheduled_agent when the dispatch raises an exception that
\* execute_agent does not turn into a response (scheduler.py:278-289): the
\* except clause records a failed response and ends without a return
\* statement, so the caller gets None.
ScheduledDispatchRaises(n) ==
    /\ ncalls < MaxCalls
    /\ ncalls' = ncalls + 1
    /\ calls' = [calls EXCEPT ![ncalls + 1] =
           Returned(n, "scheduled", FALSE, "dispatch_raised", "none", "exception")]
    /\ execution_history' =
           record_execution(execution_history, ncalls + 1, n, "failed")
    /\ UNCHANGED <<running_agents, agent_memory, notAgentVars>>

\* trigger_agent when the dispatch raises (scheduler.py:312-341): no try
\* block surrounds the await, so the exception leaves trigger_agent before
\* anything is recorded.
ManualDispatchRaises(n) ==
    /\ ncalls < MaxCalls
    /\ ncalls' = ncalls + 1
    /\ calls' = [calls EXCEPT ![ncalls + 1] =
           [Returned(n, "manual", FALSE, "dispatch_raised", "none", "exception")
               EXCEPT !.raised = "Exception"]]
    /\ UNCHANGED <<running_agents, agent_memory, execution_history, notAgentVars>>

\* The awaited task ends (or the timeout expires) and the caller resumes; a
\* monitoring loop that awaited the call goes on to its sleep.
TaskEnds(c, outcome) ==
    /\ calls[c].pc = "awaiting"
    /\ ExecuteAgentResume(c, outcome)
    /\ loops' = [l \in DOMAIN loops |->
                    IF loops[l].pc = "firing" /\ loops[l].call = c
                    THEN AfterFire(l, loops[l], now) ELSE loops[l]]
    /\ UNCHANGED <<ncalls, scheduler_state, monitoring_tasks, breakerVars, now,
                   otherVars>>

\* AgentManager.__init__ and AgentScheduler.__init__
AgentInit ==
    /\ running_agents = [n \in agents |-> NoTask]
    /\ agent_memory = [n \in agents |-> <<>>]
    /\ calls = [c \in CallIds |-> NoCall]
    /\ ncalls = 0
    /\ execution_history = <<>>
    /\ scheduler_state = "stopped"
    /\ monitoring_tasks = [l \in Loops |-> "function"]
    /\ loops = [l \in Loops |-> NoLoop]

AgentNext ==
    \/ \E n \in RequestNames : execute_agent(n)
    \/ \E n \in RequestNames : execute_scheduled_agent(n)
    \/ \E n \in RequestNames : trigger_agent(n)
    \/ \E c \in CallIds, o \in Outcomes : TaskEnds(c, o)

(***************************************************************************)
(* AgentScheduler.start, stop and the monitoring loops                     *)
(* (scheduler.py:43-60, 133-202).                                          *)
(***************************************************************************)
\* Time passes.
Tick ==
    /\ now < MaxTime
    /\ now' = now + 1
    /\ UNCHANGED <<agentVars, schedVars, breakerVars, otherVars>>

\* isinstance(task, asyncio.Task) for a value of monitoring_tasks.
IsTask(v) == v = "Task"

\* AgentScheduler.start: the job scheduler starts and every monitor function
\* is called and wrapped in a task; the task is not kept.
start ==
    /\ scheduler_state = "stopped"
    /\ \A l \in Loops : loops[l].pc = "absent"
    /\ scheduler_state' = "running"
    /\ loops' = [l \in Loops |-> Sleeping(loops[l], now)]
    /\ UNCHANGED <<monitoring_tasks, agentVars, notSchedVars>>

\* AgentScheduler.stop: the job scheduler shuts down and the values of
\* monitoring_tasks that are tasks are cancelled.
stop ==
    /\ scheduler_state = "running"
    /\ scheduler_state' = "shutdown"
    /\ loops' = [l \in Loops |->
                    IF IsTask(monitoring_tasks[l])
                    THEN [loops[l] EXCEPT !.cancel_requested = TRUE]
                    ELSE loops[l]]
    /\ UNCHANGED <<monitoring_tasks, agentVars, notSchedVars>>

\* A job added by setup_scheduled_agent fires while the scheduler runs.
JobFires(n) ==
    /\ ncalls < MaxFirings
    /\ scheduler_state = "running"
    /\ Trigger(n) = "schedule"
    /\ execute_scheduled_agent(n)

\* The loop calls execute_scheduled_agent: it either suspends in it or, when
\* the manager answers at once, goes on to its sleep.
Fire(l, L) ==
    /\ ncalls < MaxFirings
    /\ ncalls' = ncalls + 1
    /\ ExecuteAgentEntry(ncalls + 1, l, "scheduled")
    /\ loops' = [loops EXCEPT ![l] =
           IF calls'[ncalls + 1].pc = "awaiting"
           THEN [L EXCEPT !.pc = "firing", !.call = ncalls + 1]
           ELSE AfterFire(l, L, now)]

\* One iteration of the monitor of setup_continuous_agent.
ContinuousIteration(l) ==
    \E p \in ConditionProbes :
        IF check_conditions(Conditions(l), p)
        THEN Fire(l, loops[l])
        ELSE /\ loops' = [loops EXCEPT ![l] = Sleeping(@, now + check_interval)]
             /\ UNCHANGED agentVars

\* The debounce test with the elapsed time counted in microseconds.
DebouncedInMicroseconds(last_trigger, current_time) ==
    /\ last_trigger # None
    /\ (current_time - last_trigger) * 1000000 < debounce_ms

\* "if last_trigger:" and "if time_since_last < debounce_ms" of the monitor
\* of setup_context_aware_agent, with time_since_last in milliseconds.
Debounced(last_trigger, current_time) ==
    /\ last_trigger # None
    /\ (current_time - last_trigger) * 1000 < debounce_ms

\* One iteration of the monitor of setup_context_aware_agent.
ContextAwareIteration(l) ==
    \E p \in MonitorProbes :
        LET L == loops[l]
            time_since_last == (now - L.last_trigger) * 1000
        IN  IF check_monitors(Monitors(l), p) # {}
            THEN IF Debounced(L.last_trigger, now)
                 THEN /\ loops' = [loops EXCEPT ![l] =
                            Sleeping(L, now + (debounce_ms - time_since_last) \div 1000)]
                      /\ UNCHANGED agentVars
                 ELSE Fire(l, [L EXCEPT !.current_time = now])
            ELSE /\ loops' = [loops EXCEPT ![l] = Sleeping(L, now + 1)]
                 /\ UNCHANGED agentVars

\* CancelledError is raised in the loop at the await where it is suspended:
\* a call it awaits is abandoned (execute_agent's finally block runs, the
\* exception leaves execute_agent and execute_scheduled_agent unrecorded),
\* and the loop breaks.
Cancelled(l) ==
    LET L == loops[l]
    IN  /\ loops' = [loops EXCEPT ![l] = [L EXCEPT !.pc = "done", !.call = 0]]
        /\ IF L.pc = "firing"
           THEN /\ calls' = [calls EXCEPT ![L.call] =
                       [@ EXCEPT !.pc = "returned", !.outcome = "cancelled",
                                 !.raised = Propagates("CancelledError")]]
                /\ running_agents' = CleanUp(running_agents, l)
                /\ UNCHANGED <<agent_memory, ncalls, execution_history>>
           ELSE UNCHANGED agentVars

\* The event loop resumes a loop task: a requested cancellation is
\* delivered, or its sleep is over and it runs its next iteration.
LoopResumes(l) ==
    /\ loops[l].pc \in {"sleeping", "firing"}
    /\ IF loops[l].cancel_requested
       THEN Cancelled(l)
       ELSE /\ loops[l].pc = "sleeping"
            /\ now >= loops[l].wake
            /\ IF Trigger(l) = "continuous"
               THEN ContinuousIteration(l)
               ELSE ContextAwareIteration(l)
    /\ UNCHANGED <<scheduler_state, monitoring_tasks, notSchedVars>>

LoopNext ==
    \/ start
    \/ stop
    \/ \E n \in agents : JobFires(n)
    \/ \E l \in Loops : LoopResumes(l)
    \/ \E c \in CallIds, o \in Outcomes : TaskEnds(c, o)
    \/ Tick

(***************************************************************************)
(* CircuitBreaker (utils/retry.py).                                        *)
(***************************************************************************)
Callers == 1 .. MaxBreakerCalls

\* One caller of the wrapper: pc is "running" while func is awaited; result
\* is how its last call ended ("unavailable": the breaker raised
\* ServiceUnavailableError without calling func; "success"; "matching": func
\* raised expected_exception; "other": func raised something else); entered
\* is the state of the breaker when func was invoked for it.
IdleCaller == [pc |-> "idle", result |-> "none", entered |-> "none"]

\* _should_attempt_reset without the recovery timeout.
_should_attempt_reset_no_wait(lft, t, timeout) ==
    lft # None /\ t - lft >= 0

\* CircuitBreaker._should_attempt_reset
_should_attempt_reset(lft, t, timeout) ==
    lft # None /\ t - lft >= timeout

\* _on_success that closes the breaker and keeps the counter.
_on_success_keeps_count(count, st) == <<count, "closed">>

\* CircuitBreaker._on_success: <<failure_count, state>>
_on_success(count, st) == <<0, "closed">>

\* _on_failure that opens only above the threshold.
_on_failure_above_threshold(count, st, t, threshold) ==
    <<count + 1, t, IF count + 1 > threshold THEN "open" ELSE st>>

\* _on_failure that opens the breaker from Closed only.
_on_failure_from_closed(count, st, t, threshold) ==
    <<count + 1, t, IF st = "closed" /\ count + 1 >= threshold THEN "open" ELSE st>>

\* CircuitBreaker._on_failure: <<failure_count, last_failure_time, state>>
_on_failure(count, st, t, threshold) ==
    <<count + 1, t, IF count + 1 >= threshold THEN "open" ELSE st>>

\* The state in which the wrapper goes on to func, or "rejected" when it
\* raises ServiceUnavailableError instead (retry.py:45-52).
Admit(st, lft, t, timeout) ==
    IF st = "open"
    THEN IF _should_attempt_reset(lft, t, timeout) THEN "half_open" ELSE "rejected"
    ELSE st

\* wrapper(): from the call to the await of func.
wrapper(c) ==
    /\ wrapped[c].pc = "idle"
    /\ LET a == Admit(state, last_failure_time, now, recovery_timeout)
       IN  IF a = "rejected"
           THEN /\ wrapped' = [wrapped EXCEPT ![c] =
                       [pc |-> "idle", result |-> "unavailable", entered |-> "none"]]
                /\ UNCHANGED state
           ELSE /\ wrapped' = [wrapped EXCEPT ![c] =
                       [pc |-> "running", result |-> "none", entered |-> a]]
                /\ state' = a
    /\ UNCHANGED notBreakerVars
    /\ UNCHANGED <<failure_threshold, recovery_timeout, failure_count,
                   last_failure_time, now, streak>>

\* func returns: _on_success, and the result goes to the caller.
FuncSucceeds(c) ==
    /\ wrapped[c].pc = "running"
    /\ LET r == _on_success(failure_count, state)
       IN  /\ failure_count' = r[1]
           /\ state' = r[2]
    /\ wrapped' = [wrapped EXCEPT ![c].pc = "idle", ![c].result = "success"]
    /\ streak' = 0
    /\ UNCHANGED notBreakerVars
    /\ UNCHANGED <<failure_threshold, recovery_timeout, last_failure_time, now>>

\* func raises expected_exception: _on_failure, and the exception is re-raised.
FuncFailsMatching(c) ==
    /\ wrapped[c].pc = "running"
    /\ failure_count < MaxFailures
    /\ LET r == _on_failure(failure_count, state, now, failure_threshold)
       IN  /\ failure_count' = r[1]
           /\ last_failure_time' = r[2]
           /\ state' = r[3]
    /\ wrapped' = [wrapped EXCEPT ![c].pc = "idle", ![c].result = "matching"]
    /\ streak' = streak + 1
    /\ UNCHANGED notBreakerVars
    /\ UNCHANGED <<failure_threshold, recovery_timeout, now>>

\* func raises an exception that expected_exception does not match: no
\* handler of the wrapper runs.
FuncFailsOther(c) ==
    /\ wrapped[c].pc = "running"
    /\ wrapped' = [wrapped EXCEPT ![c].pc = "idle", ![c].result = "other"]
    /\ UNCHANGED notBreakerVars
    /\ UNCHANGED <<failure_threshold, recovery_timeout, state, failure_count,
                   last_failure_time, now, streak>>

\* CircuitBreaker.__init__ with the parameters drawn from two sets.
BreakerConstructed(thresholds, timeouts) ==
    /\ failure_threshold \in thresholds
    /\ recovery_timeout \in timeouts
    /\ state = "closed"
    /\ failure_count = 0
    /\ last_failure_time = None
    /\ wrapped = [c \in Callers |-> IdleCaller]
    /\ streak = 0

BreakerNext ==
    \/ \E c \in Callers : wrapper(c)
    \/ \E c \in Callers : FuncSucceeds(c)
    \/ \E c \in Callers : FuncFailsMatching(c)
    \/ \E c \in Callers : FuncFailsOther(c)
    \/ Tick

BreakerInit == BreakerConstructed(1 .. MaxThreshold, 1 .. MaxRecovery)

\* A breaker constructed with the default parameters (retry.py:30-31), on
\* which no call is made.
BreakerDefault == BreakerConstructed({5}, {60})

(***************************************************************************)
(* retry_with_backoff (utils/retry.py): async_wrapper and sync_wrapper run *)
(* the same loop; the first awaits func and asyncio.sleep, the second      *)
(* calls func and time.sleep.                                              *)
(***************************************************************************)
\* The kinds of exception func raises.
ExceptionKinds == {"ConnectionError", "ValueError"}

\* An exception object: its kind and the invocation of func that raised it.
NoException == [kind |-> "none", invocation |-> 0]

\* except <exceptions> as e that catches every exception.
MatchesAny(kind, excs) == TRUE

\* except <exceptions> as e
Matches(kind, excs) == kind \in excs

RECURSIVE Power(_, _)
Power(b, e) == IF e = 0 THEN 1 ELSE b * Power(b, e - 1)

\* min(base_delay * (exponential_base ** attempt), max_delay), in
\* milliseconds, with the default base_delay, exponential_base and max_delay.
BackoffDelay(a) ==
    LET d == 1000 * Power(2, a)
    IN  IF d < 60000 THEN d ELSE 60000

\* delay *= (0.5 + random.random() / 2): the factor, in percent.
Jitter == {50, 75, 100}

\* The decorated function is called.
RetryCall ==
    /\ retry_pc \in {"idle", "returned", "raised"}
    /\ retry_calls < MaxRetryCalls
    /\ retry_calls' = retry_calls + 1
    /\ attempt' = 0
    /\ last_exception' = NoException
    /\ func_log' = <<>>
    /\ retry_raised' = NoException
    /\ delay' = 0
    /\ retry_pc' = "calling"
    /\ UNCHANGED <<max_retries, exceptions, notRetryVars>>

\* func returns: the wrapper returns its value.
RetryFuncReturns ==
    /\ retry_pc = "calling"
    /\ func_log' = Append(func_log, "success")
    /\ retry_pc' = "returned"
    /\ UNCHANGED <<max_retries, exceptions, attempt, last_exception,
                   retry_raised, delay, retry_calls, notRetryVars>>

\* func raises an exception of kind k.
RetryFuncRaises(k) ==
    /\ retry_pc = "calling"
    /\ func_log' = Append(func_log, k)
    /\ LET e == [kind |-> k, invocation |-> Len(func_log) + 1]
       IN  IF Matches(k, exceptions)
           THEN /\ last_exception' = e
                /\ IF attempt = max_retries
                   THEN \* raise
                        /\ retry_raised' = e
                        /\ retry_pc' = "raised"
                        /\ UNCHANGED delay
                   ELSE /\ \E j \in Jitter :
                              delay' = (BackoffDelay(attempt) * j) \div 100
                        /\ retry_pc' = "sleeping"
                        /\ UNCHANGED retry_raised
           ELSE \* no except clause catches it
                /\ retry_raised' = e
                /\ retry_pc' = "raised"
                /\ UNCHANGED <<last_exception, delay>>
    /\ UNCHANGED <<max_retries, exceptions, attempt, retry_calls, notRetryVars>>

\* The sleep is over: the next iteration of the loop.
RetrySleepEnds ==
    /\ retry_pc = "sleeping"
    /\ attempt' = attempt + 1
    /\ retry_pc' = "calling"
    /\ UNCHANGED <<max_retries, exceptions, last_exception, func_log,
                   retry_raised, delay, retry_calls, notRetryVars>>

\* The decorator applied with its parameters drawn from two sets.
RetryDecorated(retries, excs) ==
    /\ max_retries \in retries
    /\ exceptions \in excs
    /\ attempt = 0
    /\ last_exception = NoException
    /\ retry_pc = "idle"
    /\ func_log = <<>>
    /\ retry_raised = NoException
    /\ delay = 0
    /\ retry_calls = 0

RetryInit ==
    RetryDecorated(0 .. MaxRetries, {{"ConnectionError"}, ExceptionKinds})

\* The decorator with its default parameters (retry.py:91-96), never called.
RetryDefault == RetryDecorated({3}, {ExceptionKinds})

RetryNext ==
    \/ RetryCall
    \/ RetryFuncReturns
    \/ \E k \in ExceptionKinds : RetryFuncRaises(k)
    \/ RetrySleepEnds

(***************************************************************************)
(* ParallelExecutor.execute_parallel (agents_enhanced.py:60-94).           *)
(***************************************************************************)
\* The ParallelTask objects a batch is made of.  id is the position of the
\* task in the list the caller passed; timeout is None or a positive number
\* of seconds.
TaskNames == {"vault-analyzer", "context-optimizer"}

ParallelTask == [name : TaskNames, priority : {1, 2}, timeout : {None, 60}]

Batches == UNION {[1 .. k -> ParallelTask] : k \in 0 .. MaxBatch}

WithIds(tasks) ==
    [i \in DOMAIN tasks |->
        [id |-> i, name |-> tasks[i].name, priority |-> tasks[i].priority,
         timeout |-> tasks[i].timeout]]

\* list.sort(key=lambda x: x.priority): a stable sort.
InsertByPriority(sorted, t) ==
    LET k == Cardinality({i \in DOMAIN sorted : sorted[i].priority <= t.priority})
    IN  SubSeq(sorted, 1, k) \o <<t>> \o SubSeq(sorted, k + 1, Len(sorted))

RECURSIVE SortByPriority(_)
SortByPriority(tasks) ==
    IF tasks = <<>> THEN <<>>
    ELSE InsertByPriority(SortByPriority(SubSeq(tasks, 1, Len(tasks) - 1)),
                          tasks[Len(tasks)])

\* What a coroutine of the batch ends with: the return value of task id, an
\* exception func raised, or the TimeoutError of asyncio.wait_for.  Every
\* exception considered derives from Exception.
Pending == [kind |-> "pending", of |-> 0]

EndKinds(t) ==
    {"value", "Exception"} \cup (IF t.timeout # None THEN {"TimeoutError"} ELSE {})

\* isinstance(result, Exception)
IsException(r) == r.kind \in {"Exception", "TimeoutError"}

\* str(result) for an exception: the message of the exception func raised;
\* the TimeoutError wait_for raises carries no message.
Str(r) == IF r.kind = "TimeoutError" THEN <<"">> ELSE <<"message", r.of>>

\* A value of the returned map: a task's return value or {'error': ...}.
Value(id) == [error |-> FALSE, payload |-> <<"value", id>>]

Error(msg) == [error |-> TRUE, payload |-> msg]

\* result if not isinstance(result, Exception) else {'error': str(result)}
ToEntry(r) == IF IsException(r) THEN Error(Str(r)) ELSE Value(r.of)

\* A gather that raises the first exception of a child.
raise_exceptions == FALSE

\* asyncio.gather(*coroutines, return_exceptions=True)
return_exceptions == TRUE

\* {name: ... for name, result in zip(task_names, results)}: a later pair
\* with the same name replaces an earlier one.
ResultMap(names, results) ==
    [n \in {names[i] : i \in DOMAIN names} |->
        LET last == CHOOSE i \in DOMAIN names :
                        /\ names[i] = n
                        /\ \A j \in DOMAIN names : names[j] = n => j <= i
        IN  ToEntry(results[last])]

NoMap == <<>>

\* execute_parallel up to the await of gather.
execute_parallel(tasks) ==
    /\ exec_pc = "idle"
    /\ exec_calls < MaxBatches
    /\ exec_calls' = exec_calls + 1
    /\ submitted' = WithIds(tasks)
    /\ batch' = SortByPriority(WithIds(tasks))
    /\ task_names' = [i \in DOMAIN tasks |-> batch'[i].name]
    /\ coroutines' = [i \in DOMAIN tasks |-> Pending]
    /\ exec_result' = NoMap
    /\ exec_raised' = Pending
    /\ exec_pc' = "gathering"
    /\ UNCHANGED notExecVars

\* The coroutine of one task ends; the others go on.
CoroutineEnds(i, kind) ==
    /\ exec_pc = "gathering"
    /\ i \in DOMAIN coroutines
    /\ coroutines[i] = Pending
    /\ kind \in EndKinds(batch[i])
    /\ coroutines' = [coroutines EXCEPT ![i] = [kind |-> kind, of |-> batch[i].id]]
    /\ UNCHANGED <<batch, submitted, task_names, exec_result, exec_raised,
                   exec_pc, exec_calls, notExecVars>>

\* gather is done: execute_parallel builds the map and returns it.  A
\* gather that does not return exceptions raises the first one instead.
GatherReturns ==
    /\ exec_pc = "gathering"
    /\ IF return_exceptions
       THEN /\ \A i \in DOMAIN coroutines : coroutines[i] # Pending
            /\ exec_result' = ResultMap(task_names, coroutines)
            /\ exec_pc' = "returned"
            /\ UNCHANGED exec_raised
       ELSE \/ /\ \A i \in DOMAIN coroutines :
                     coroutines[i] # Pending /\ ~IsException(coroutines[i])
               /\ exec_result' = ResultMap(task_names, coroutines)
               /\ exec_pc' = "returned"
               /\ UNCHANGED exec_raised
            \/ \E i \in DOMAIN coroutines :
                  /\ IsException(coroutines[i])
                  /\ exec_raised' = coroutines[i]
                  /\ exec_pc' = "raised"
                  /\ UNCHANGED exec_result
    /\ UNCHANGED <<batch, submitted, task_names, coroutines, exec_calls,
                   notExecVars>>

\* The caller has the returned map: the frame of the call, its locals and
\* its return value, is gone and the executor can be called again.
ExecFrameDropped ==
    /\ exec_pc = "returned"
    /\ exec_pc' = "idle"
    /\ batch' = <<>>
    /\ submitted' = <<>>
    /\ task_names' = <<>>
    /\ coroutines' = <<>>
    /\ exec_result' = NoMap
    /\ UNCHANGED <<exec_raised, exec_calls, notExecVars>>

\* ParallelExecutor.__init__
ExecInit ==
    /\ batch = <<>>
    /\ submitted = <<>>
    /\ task_names = <<>>
    /\ coroutines = <<>>
    /\ exec_result = NoMap
    /\ exec_raised = Pending
    /\ exec_pc = "idle"
    /\ exec_calls = 0

ExecNext ==
    \/ \E tasks \in Batches : execute_parallel(tasks)
    \/ \E i \in 1 .. MaxBatch, k \in {"value", "Exception", "TimeoutError"} :
          CoroutineEnds(i, k)
    \/ GatherReturns
    \/ ExecFrameDropped

(***************************************************************************)
(* EnhancedAgentManager (agents_enhanced.py:591-775): the cache-first      *)
(* single-agent path and the parallel path that fills the cache.           *)
(***************************************************************************)
\* The agent names requested from the enhanced manager: one that
\* execute_agents_parallel dispatches and whose result takes an await, and
\* one that it drops and whose result execute_agent has at once.
EnhNames == {"vault-analyzer", "suggestion-engine"}

\* The names execute_agents_parallel dispatches.
AllowList == {"vault-analyzer", "synthesis-assistant", "context-optimizer"}

\* EnhancedAgentManager._get_agent_priority
_get_agent_priority(n) ==
    CASE n = "context-optimizer"   -> 1
      [] n = "vault-analyzer"      -> 2
      [] n = "suggestion-engine"   -> 3
      [] n = "synthesis-assistant" -> 4
      [] n = "research-assistant"  -> 5
      [] OTHER                     -> 5

\* The context argument of a call.
Contexts == {"context-1", "context-2"}

\* The values the manager returns, stores and caches.  The analysis of the
\* vault carries its own timestamp: run identifies the call that made it;
\* the results of the other agents are fixed dictionaries (run = 0).
NoValue == [kind |-> "none", agent |-> "", run |-> 0, msg |-> ""]

AgentResult(n, run) == [kind |-> "result", agent |-> n, run |-> run, msg |-> ""]

ErrorEntry(msg) == [kind |-> "error", agent |-> "", run |-> 0, msg |-> msg]

\* json.dumps and json.loads: the cache holds text.
json_dumps(v) == [json |-> v]

json_loads(t) == t.json

\* What redis get returns for a key that is absent or expired.
NoEntry == [json |-> NoValue]

\* f"agent:{agent_name}:latest"
cache_key(n) == <<"agent", n, "latest">>

CacheKeys == {cache_key(n) : n \in EnhNames}

\* A cache check that never finds anything.
TruthyNever(cached) == FALSE

\* A cache check that takes an error entry for a miss.
TruthyUnlessError(cached) == cached # NoEntry /\ cached.json.kind # "error"

\* if cached:
Truthy(cached) == cached # NoEntry

EnhCallIds == 1 .. MaxEnhCalls

\* One call of execute_agent: via tells whether the caller invoked it
\* directly or execute_parallel runs it under wait_for; client_seen is
\* what "if self.redis_client" found ("unchecked" before the check); cached
\* is what get returned; ran tells whether the agent's own code was
\* entered; result is the value returned; raised the exception that ended
\* the call.
NoEnhCall ==
    [pc |-> "unused", name |-> "", context |-> "", via |-> "",
     client_seen |-> "unchecked", cached |-> NoEntry, ran |-> FALSE,
     result |-> NoValue, raised |-> "none"]

\* The agent's code (agents_enhanced.py:698-724): the analysis of the vault
\* loads the snapshot (which may fail) and awaits analyze_vault_parallel;
\* every other name has its result at once.
RunAgent(rec, c, vault_ok) ==
    IF rec.name = "vault-analyzer"
    THEN IF vault_ok
         THEN [rec EXCEPT !.pc = "analyzing", !.ran = TRUE]
         ELSE [rec EXCEPT !.pc = "raised", !.ran = TRUE,
                          !.raised = "FileNotFoundError"]
    ELSE [rec EXCEPT !.pc = "returned", !.ran = TRUE,
                     !.result = AgentResult(rec.name, 0)]

\* if self.redis_client: ... await self.redis_client.get(cache_key)
CheckCache(rec, c, vault_ok) ==
    IF redis_client = "client"
    THEN [rec EXCEPT !.pc = "get", !.client_seen = "client"]
    ELSE RunAgent([rec EXCEPT !.client_seen = "None"], c, vault_ok)

\* execute_agent from its entry to its first suspension.
EnhEntry(rec, c, vault_ok) ==
    IF ~_memory_initialized
    THEN [rec EXCEPT !.pc = "init_memory"]
    ELSE CheckCache(rec, c, vault_ok)

EnhEnded(rec) == rec.pc \in {"returned", "raised", "timeout"}

\* A dispatch that takes every requested name.
InAllowListAny(n) == TRUE

\* The tasks execute_agents_parallel builds, in the order execute_parallel
\* runs them.
InAllowList(n) == n \in AllowList

ParTasks(names) ==
    LET listed == SelectSeq(names, InAllowList)
    IN  SortByPriority([i \in DOMAIN listed |->
            [id |-> i, name |-> listed[i],
             priority |-> _get_agent_priority(listed[i]), timeout |-> 60]])

\* What execute_parallel puts in the map for a call that has ended.
EntryOf(rec) ==
    CASE rec.pc = "returned" -> rec.result
      [] rec.pc = "timeout"  -> ErrorEntry("")
      [] OTHER               -> ErrorEntry(rec.raised)

\* The keys of a dict built from a sequence of names, in insertion order.
RECURSIVE Keys(_)
Keys(names) ==
    IF names = <<>> THEN <<>>
    ELSE LET front == Keys(SubSeq(names, 1, Len(names) - 1))
             n == names[Len(names)]
         IN  IF \E i \in DOMAIN front : front[i] = n THEN front
             ELSE Append(front, n)

NoPar == [pc |-> "idle", names |-> <<>>, tasks |-> <<>>,
          items |-> <<>>, results |-> <<>>, next |-> 0, count |-> 0]

\* The lists of names passed to execute_agents_parallel.
NameLists ==
    {<<>>, <<"vault-analyzer">>, <<"suggestion-engine">>,
     <<"suggestion-engine", "vault-analyzer">>}

\* EnhancedAgentManager.initialize_redis, called once by the application's
\* startup: the client is kept only if the server answered the ping.
initialize_redis(reachable) ==
    /\ ~redis_initialized
    /\ necalls = 0 /\ par.pc = "idle"
    /\ redis_initialized' = TRUE
    /\ redis_client' = IF reachable THEN "client" ELSE "None"
    /\ UNCHANGED <<redis, _memory_initialized, memory, ecalls, necalls, par,
                   notEnhVars>>

\* Whether pickle.load finds the vault snapshot, for the agents that read it.
SnapshotStates(names) ==
    IF "vault-analyzer" \in names THEN BOOLEAN ELSE {TRUE}

\* EnhancedAgentManager.execute_agent called by a request handler.
enhanced_execute_agent(n, ctx) ==
    /\ necalls < MaxEnhCalls
    /\ necalls' = necalls + 1
    /\ \E vault_ok \in SnapshotStates({n}) :
          ecalls' = [ecalls EXCEPT ![necalls + 1] =
              EnhEntry([NoEnhCall EXCEPT !.name = n, !.context = ctx,
                                         !.via = "single"],
                       necalls + 1, vault_ok)]
    /\ UNCHANGED <<redis_client, redis_initialized, redis,
                   _memory_initialized, memory, par, notEnhVars>>

\* initialize_memory has returned (it catches every Exception): the flag is
\* set and the call goes on to the cache check.
EnhMemoryInitialized(c) ==
    /\ ecalls[c].pc = "init_memory"
    /\ _memory_initialized' = TRUE
    /\ \E vault_ok \in SnapshotStates({ecalls[c].name}) :
          ecalls' = [ecalls EXCEPT ![c] = CheckCache(@, c, vault_ok)]
    /\ UNCHANGED <<redis_client, redis_initialized, redis, memory, necalls,
                   par, notEnhVars>>

\* redis get has answered: a hit is returned as it is, a miss runs the agent.
EnhGetReturns(c) ==
    /\ ecalls[c].pc = "get"
    /\ LET cached == redis[cache_key(ecalls[c].name)]
       IN  \E vault_ok \in SnapshotStates({ecalls[c].name}) :
             ecalls' = [ecalls EXCEPT ![c] =
                 IF Truthy(cached)
                 THEN [@ EXCEPT !.pc = "returned", !.cached = cached,
                                !.result = json_loads(cached)]
                 ELSE RunAgent([@ EXCEPT !.cached = cached], c, vault_ok)]
    /\ UNCHANGED <<redis_client, redis_initialized, redis,
                   _memory_initialized, memory, necalls, par, notEnhVars>>

\* redis get raises: the server cannot be reached any more.
EnhGetFails(c) ==
    /\ ecalls[c].pc = "get"
    /\ ecalls' = [ecalls EXCEPT ![c].pc = "raised",
                                ![c].raised = "ConnectionError"]
    /\ UNCHANGED <<redis_client, redis_initialized, redis,
                   _memory_initialized, memory, necalls, par, notEnhVars>>

\* analyze_vault_parallel returns its analysis or raises.
EnhAnalyzerEnds(c, ok) ==
    /\ ecalls[c].pc = "analyzing"
    /\ ecalls' = [ecalls EXCEPT ![c] =
           IF ok
           THEN [@ EXCEPT !.pc = "returned",
                          !.result = AgentResult(ecalls[c].name, c)]
           ELSE [@ EXCEPT !.pc = "raised", !.raised = "Exception"]]
    /\ UNCHANGED <<redis_client, redis_initialized, redis,
                   _memory_initialized, memory, necalls, par, notEnhVars>>

\* The 60 seconds of wait_for are over for a call execute_parallel runs.
EnhTimeout(c) ==
    /\ ecalls[c].via = "parallel"
    /\ ecalls[c].pc \in {"init_memory", "get", "analyzing"}
    /\ ecalls' = [ecalls EXCEPT ![c].pc = "timeout"]
    /\ UNCHANGED <<redis_client, redis_initialized, redis,
                   _memory_initialized, memory, necalls, par, notEnhVars>>

\* execute_agents_parallel up to the await of gather in execute_parallel;
\* the coroutines of the tasks run to their first suspension.
execute_agents_parallel(names, ctx) ==
    LET tasks == ParTasks(names)
        ids == [i \in DOMAIN tasks |-> necalls + i]
    IN  /\ par.pc \in {"idle", "returned", "raised"}
        /\ tasks # <<>> => par.count < MaxParallelCalls
        /\ necalls + Len(tasks) <= MaxEnhCalls
        /\ necalls' = necalls + Len(tasks)
        /\ \E vault_ok \in SnapshotStates({names[i] : i \in DOMAIN names}) :
              ecalls' = [c \in EnhCallIds |->
                  IF \E i \in DOMAIN ids : ids[i] = c
                  THEN EnhEntry([NoEnhCall EXCEPT
                                    !.name = tasks[c - necalls].name,
                                    !.context = ctx, !.via = "parallel"],
                                c, vault_ok)
                  ELSE ecalls[c]]
        /\ par' = [pc |-> "gathering",
                   names |-> [i \in DOMAIN tasks |-> tasks[i].name],
                   tasks |-> ids, items |-> <<>>, results |-> <<>>,
                   next |-> 0,
                   count |-> par.count + (IF tasks = <<>> THEN 0 ELSE 1)]
        /\ UNCHANGED <<redis_client, redis_initialized, redis,
                       _memory_initialized, memory, notEnhVars>>

\* gather is done: execute_parallel returns its map, every result is
\* appended to the history, and the first setex is awaited if there is a
\* client.
EnhGatherReturns ==
    /\ par.pc = "gathering"
    /\ \A i \in DOMAIN par.tasks : EnhEnded(ecalls[par.tasks[i]])
    /\ LET items == Keys(par.names)
           results == [n \in {par.names[i] : i \in DOMAIN par.names} |->
               LET last == CHOOSE i \in DOMAIN par.names :
                               /\ par.names[i] = n
                               /\ \A j \in DOMAIN par.names :
                                     par.names[j] = n => j <= i
               IN  EntryOf(ecalls[par.tasks[last]])]
       IN  /\ memory' = [n \in EnhNames |->
                  IF n \in DOMAIN results
                  THEN Append(memory[n], results[n]) ELSE memory[n]]
           /\ par' = [par EXCEPT
                  !.items = items, !.results = results,
                  !.pc = IF redis_client = "client" /\ items # <<>>
                         THEN "caching" ELSE "returned",
                  !.next = 1]
    /\ UNCHANGED <<redis_client, redis_initialized, redis,
                   _memory_initialized, ecalls, necalls, notEnhVars>>

\* One setex has been carried out by the server.
EnhSetexReturns ==
    /\ par.pc = "caching"
    /\ LET n == par.items[par.next]
       IN  redis' = [redis EXCEPT ![cache_key(n)] = json_dumps(par.results[n])]
    /\ par' = [par EXCEPT !.next = @ + 1,
                          !.pc = IF par.next = Len(par.items)
                                 THEN "returned" ELSE "caching"]
    /\ UNCHANGED <<redis_client, redis_initialized, _memory_initialized,
                   memory, ecalls, necalls, notEnhVars>>

\* setex raises: the exception leaves execute_agents_parallel.
EnhSetexFails ==
    /\ par.pc = "caching"
    /\ par' = [par EXCEPT !.pc = "raised"]
    /\ UNCHANGED <<redis_client, redis_initialized, redis,
                   _memory_initialized, memory, ecalls, necalls, notEnhVars>>

\* The hour of an entry is over: the server drops it.
EnhExpire(k) ==
    /\ redis[k] # NoEntry
    /\ redis' = [redis EXCEPT ![k] = NoEntry]
    /\ UNCHANGED <<redis_client, redis_initialized, _memory_initialized,
                   memory, ecalls, necalls, par, notEnhVars>>

\* EnhancedAgentManager.__init__ and an empty cache server.
EnhInit ==
    /\ redis_client = "None"
    /\ redis_initialized = FALSE
    /\ redis = [k \in CacheKeys |-> NoEntry]
    /\ _memory_initialized = FALSE
    /\ memory = [n \in EnhNames |-> <<>>]
    /\ ecalls = [c \in EnhCallIds |-> NoEnhCall]
    /\ necalls = 0
    /\ par = NoPar

EnhNext ==
    \/ \E r \in BOOLEAN : initialize_redis(r)
    \/ \E n \in EnhNames, ctx \in Contexts : enhanced_execute_agent(n, ctx)
    \/ \E names \in NameLists, ctx \in Contexts :
          execute_agents_parallel(names, ctx)
    \/ \E c \in EnhCallIds : EnhMemoryInitialized(c)
    \/ \E c \in EnhCallIds : EnhGetReturns(c)
    \/ \E c \in EnhCallIds : EnhGetFails(c)
    \/ \E c \in EnhCallIds, ok \in BOOLEAN : EnhAnalyzerEnds(c, ok)
    \/ \E c \in EnhCallIds : EnhTimeout(c)
    \/ EnhGatherReturns
    \/ EnhSetexReturns
    \/ EnhSetexFails
    \/ \E k \in CacheKeys : EnhExpire(k)

(***************************************************************************)
(* AgentMemory, the primary memory store (agent_memory.py:45-281):         *)
(* store_memory and recall_memories.  The content of a memory is the       *)
(* dictionary every caller in the repository builds, so rendering it to    *)
(* markdown does not fail.                                                 *)
(***************************************************************************)
\* The agent whose memories are stored and recalled.
MemAgents == {"vault-analyzer"}

\* MemoryType values used, and "all" for recall_memories without a type.
MemTypes == {"pattern", "insight"}

RecallTypes == MemTypes \cup {"all"}

\* cache_key = f"{agent_name}:{memory_type.value}"
MemKey(a, t) == <<a, t>>

MemKeys == {MemKey(a, t) : a \in MemAgents, t \in RecallTypes}

\* f"{folder}/{title}" with folder = f"{self.memory_folder}/{type}s" and
\* title = f"{agent_name} - {type} - {timestamp}"; NoPath is "".
MemPath(a, t, ts) ==
    [folder |-> <<"agent-os/memory", t, "s">>, title |-> <<a, t, ts>>]

NoPath == [folder |-> <<>>, title |-> <<>>]

\* The dictionary appended to a bucket; content is the number of the
\* store_memory call that brought it.
CacheEntry(a, t, ts, content) ==
    [timestamp |-> ts, content |-> content, path |-> MemPath(a, t, ts)]

\* A slice that takes the oldest entries: list[:limit].
OldestItems(list, limit) ==
    IF limit >= Len(list) THEN list ELSE SubSeq(list, 1, limit)

\* list[-limit:] as Python computes it for limit >= 0.
LastItems(list, limit) ==
    IF limit = 0 \/ limit >= Len(list) THEN list
    ELSE SubSeq(list, Len(list) - limit + 1, Len(list))

\* list[:limit]
FirstItems(list, limit) ==
    IF limit >= Len(list) THEN list ELSE SubSeq(list, 1, limit)

MemStoreIds == 1 .. MaxStores

NoStore == [pc |-> "unused", agent |-> "", type |-> "", timestamp |-> 0,
            path |-> NoPath, write |-> "none", raised |-> "none"]

\* A store that caches the entry although the write failed.
AfterWriteFailureCached(c, key, entry) == [c EXCEPT ![key] = Append(@, entry)]

\* The except clause of store_memory: the cache-append was not reached.
AfterWriteFailure(c, key, entry) == c

\* One recall_memories call: searched tells whether search_notes was called.
NoRecall == [pc |-> "idle", agent |-> "", type |-> "", limit |-> 0,
             result |-> <<>>, searched |-> FALSE]

\* The notes of the external store that search_notes finds for the query
\* f"agent:{agent_name}" [+ f" type:{type}"], at most page_size of them.
SearchResults(a, t, limit) ==
    LET Hit(n) == n.agent = a /\ (t = "all" \/ n.type = t)
    IN  FirstItems(SelectSeq(notes, Hit), limit)

\* The dictionary recall_memories makes of one search result.
Normalized(n, t) ==
    [timestamp |-> n.created, content |-> n.content,
     path |-> MemPath(n.agent, n.type, n.created)]

\* AgentMemory.store_memory up to the await of write_note, or to its return
\* when there is no client.
store_memory(a, t) ==
    /\ nmstores < MaxStores
    /\ nmstores' = nmstores + 1
    /\ _initialized' = TRUE
    /\ LET c == nmstores + 1
           rec == [NoStore EXCEPT !.agent = a, !.type = t, !.timestamp = now]
       IN  IF memory_client = "client"
           THEN /\ mstores' = [mstores EXCEPT ![c] =
                       [rec EXCEPT !.pc = "writing", !.write = "pending"]]
                /\ UNCHANGED cache
           ELSE /\ cache' = [cache EXCEPT ![MemKey(a, t)] =
                       Append(@, CacheEntry(a, t, now, c))]
                /\ mstores' = [mstores EXCEPT ![c] =
                       [rec EXCEPT !.pc = "returned",
                                   !.path = MemPath(a, t, now)]]
    /\ UNCHANGED <<memory_client, notes, recall, nrecalls, notMemVars>>

\* write_note returns: the entry is cached and the path returned.
MemWriteReturns(c) ==
    /\ mstores[c].pc = "writing"
    /\ LET r == mstores[c]
       IN  /\ notes' = Append(notes, [agent |-> r.agent, type |-> r.type,
                                      content |-> c, created |-> r.timestamp])
           /\ cache' = [cache EXCEPT ![MemKey(r.agent, r.type)] =
                  Append(@, CacheEntry(r.agent, r.type, r.timestamp, c))]
           /\ mstores' = [mstores EXCEPT ![c] =
                  [r EXCEPT !.pc = "returned", !.write = "ok",
                            !.path = MemPath(r.agent, r.type, r.timestamp)]]
    /\ UNCHANGED <<memory_client, _initialized, nmstores, recall, nrecalls,
                   notMemVars>>

\* write_note raises: the exception is logged and "" is returned.
MemWriteFails(c) ==
    /\ mstores[c].pc = "writing"
    /\ LET r == mstores[c]
       IN  /\ cache' = AfterWriteFailure(cache, MemKey(r.agent, r.type),
                           CacheEntry(r.agent, r.type, r.timestamp, c))
           /\ mstores' = [mstores EXCEPT ![c] =
                  [r EXCEPT !.pc = "returned", !.write = "failed"]]
    /\ UNCHANGED <<memory_client, _initialized, notes, nmstores, recall,
                   nrecalls, notMemVars>>

\* AgentMemory.recall_memories up to its return or to the await of
\* search_notes.
recall_memories(a, t, limit) ==
    /\ recall.pc # "searching"
    /\ nrecalls < MaxRecalls
    /\ nrecalls' = nrecalls + 1
    /\ LET rec == [NoRecall EXCEPT !.agent = a, !.type = t, !.limit = limit]
           bucket == cache[MemKey(a, t)]
       IN  recall' =
             IF Len(bucket) > 0
             THEN [rec EXCEPT !.pc = "returned",
                              !.result = LastItems(bucket, limit)]
             ELSE IF memory_client = "client"
             THEN [rec EXCEPT !.pc = "searching", !.searched = TRUE]
             ELSE [rec EXCEPT !.pc = "returned"]
    /\ UNCHANGED <<memory_client, _initialized, cache, notes, mstores,
                   nmstores, notMemVars>>

\* search_notes returns.
MemSearchReturns ==
    /\ recall.pc = "searching"
    /\ LET found == SearchResults(recall.agent, recall.type, recall.limit)
       IN  recall' = [recall EXCEPT
               !.pc = "returned",
               !.result = [i \in DOMAIN found |-> Normalized(found[i], recall.type)]]
    /\ UNCHANGED <<memory_client, _initialized, cache, notes, mstores,
                   nmstores, nrecalls, notMemVars>>

\* search_notes raises: the exception is logged and [] is returned.
MemSearchFails ==
    /\ recall.pc = "searching"
    /\ recall' = [recall EXCEPT !.pc = "returned"]
    /\ UNCHANGED <<memory_client, _initialized, cache, notes, mstores,
                   nmstores, nrecalls, notMemVars>>

\* AgentMemory.__init__ with or without a client.
MemConstructed(clients) ==
    /\ memory_client \in clients
    /\ _initialized = FALSE
    /\ cache = [k \in MemKeys |-> <<>>]
    /\ notes = <<>>
    /\ mstores = [c \in MemStoreIds |-> NoStore]
    /\ nmstores = 0
    /\ recall = NoRecall
    /\ nrecalls = 0

MemInit == MemConstructed({"None", "client"})

\* agent_memory = AgentMemory(): the store of the process, without client.
MemDefault == MemConstructed({"None"})

MemNext ==
    \/ \E a \in MemAgents, t \in MemTypes : store_memory(a, t)
    \/ \E c \in MemStoreIds : MemWriteReturns(c)
    \/ \E c \in MemStoreIds : MemWriteFails(c)
    \/ \E a \in MemAgents, t \in RecallTypes, limit \in 1 .. MaxLimit :
          recall_memories(a, t, limit)
    \/ MemSearchReturns
    \/ MemSearchFails

(***************************************************************************)
(* ServiceManager (services.py) and the application's startup_event        *)
(* (app.py:70-94).                                                         *)
(***************************************************************************)
\* initialization_order: the steps of initialize_all_services.
initialization_order ==
    <<"vault_data", "opensearch", "semantic_index", "ml_models", "redis">>

ServiceNames == {initialization_order[i] : i \in DOMAIN initialization_order}

\* The keys of self.services each step sets when it succeeds.
ServiceKeysOf(step) ==
    CASE step = "vault_data"     -> {"vault"}
      [] step = "opensearch"     -> {"opensearch_client", "opensearch_host"}
      [] step = "semantic_index" -> {"doc_embeddings_array", "embedding_index"}
      [] step = "ml_models"      -> {"tokenizer", "model"}
      [] step = "redis"          -> {"redis_client"}

ServiceKeys == UNION {ServiceKeysOf(s) : s \in ServiceNames}

\* max_retries of the retry_with_backoff decorator of each step's function;
\* _initialize_redis is not decorated.
StepRetries(step) ==
    CASE step = "vault_data"     -> 2
      [] step = "opensearch"     -> 3
      [] step = "semantic_index" -> 2
      [] step = "ml_models"      -> 2
      [] step = "redis"          -> 0

\* No step is critical.
CriticalNone == {}

\* The lexical backend is critical as well.
CriticalWithOpensearch == {"vault_data", "opensearch"}

\* if service_name in ['vault_data']
Critical == {"vault_data"}

\* The ways one invocation of a step's function can end: it succeeds, it
\* succeeds on the second host (the lexical backend only), or it fails.
AttemptOutcomes(step) ==
    {"ok", "fails"} \cup (IF step = "opensearch" THEN {"ok_fallback"} ELSE {})

NoBoot == [pc |-> "idle", step |-> 0, attempt |-> 0, attempted |-> <<>>,
           raised |-> "none"]

\* self.services after the step's function succeeded.
Provided(svcs, step, outcome) ==
    [k \in ServiceKeys |->
        IF k \in ServiceKeysOf(step)
        THEN IF k = "opensearch_host"
             THEN (IF outcome = "ok" THEN "opensearch" ELSE "localhost")
             ELSE "object"
        ELSE svcs[k]]

\* ServiceManager.get_service: the service, or the error it raises.
get_service(k) ==
    IF ~services_initialized
    THEN [error |-> "ConfigurationError", code |-> "SERVICE_MANAGER_NOT_INITIALIZED",
          value |-> "absent"]
    ELSE IF services[k] = "absent"
    THEN [error |-> "ConfigurationError", code |-> "SERVICE_NOT_FOUND",
          value |-> "absent"]
    ELSE [error |-> "none", code |-> "none", value |-> services[k]]

\* ServiceManager.get_health_status
get_health_status ==
    [initialized |-> services_initialized,
     services |-> service_status,
     circuit_breakers |-> circuit_breakers,
     degraded_services |-> {s \in ServiceNames : ~service_status[s]}]

\* The services startup_event fetches after initialize_all_services.
StartupServices ==
    <<"vault", "opensearch_client", "doc_embeddings_array", "embedding_index",
      "tokenizer", "model">>

\* The loop of initialize_all_services goes on to the next step, or ends.
NextStep(b) ==
    IF b.step = Len(initialization_order)
    THEN [b EXCEPT !.pc = "done"]
    ELSE [b EXCEPT !.pc = "attempting", !.step = @ + 1, !.attempt = 0,
                   !.attempted = Append(@, initialization_order[b.step + 1])]

\* startup_event calls initialize_all_services, which enters its first step.
startup_event ==
    /\ app = "created"
    /\ boot.pc = "idle"
    /\ app' = "starting"
    /\ boot' = [NoBoot EXCEPT !.pc = "attempting", !.step = 1,
                              !.attempted = <<initialization_order[1]>>]
    /\ UNCHANGED <<services, service_status, services_initialized,
                   circuit_breakers, failed, notSvcVars>>

\* One invocation of the current step's function ends.
BootAttempt(outcome) ==
    /\ boot.pc = "attempting"
    /\ LET step == initialization_order[boot.step]
       IN  /\ outcome \in AttemptOutcomes(step)
           /\ circuit_breakers' =
                 IF step = "opensearch"
                 THEN [circuit_breakers EXCEPT !["opensearch"] = "closed"]
                 ELSE circuit_breakers
           /\ IF outcome # "fails"
              THEN \* await init_func() returns
                   /\ services' = Provided(services, step, outcome)
                   /\ service_status' = [service_status EXCEPT ![step] = TRUE]
                   /\ boot' = NextStep(boot)
                   /\ failed' = failed
              ELSE IF step = "redis"
              THEN \* _initialize_redis catches the exception itself
                   /\ services' = [services EXCEPT !["redis_client"] = "None"]
                   /\ service_status' = [service_status EXCEPT ![step] = TRUE]
                   /\ boot' = NextStep(boot)
                   /\ failed' = failed \cup {step}
              ELSE IF boot.attempt < StepRetries(step)
              THEN \* the retrying wrapper sleeps and invokes it again
                   /\ boot' = [boot EXCEPT !.pc = "sleeping"]
                   /\ UNCHANGED <<services, service_status, failed>>
              ELSE \* the wrapper re-raises: except Exception in the loop
                   /\ service_status' = [service_status EXCEPT ![step] = FALSE]
                   /\ failed' = failed \cup {step}
                   /\ boot' = IF step \in Critical
                              THEN [boot EXCEPT !.pc = "raised",
                                                !.raised = "ConfigurationError"]
                              ELSE NextStep(boot)
                   /\ UNCHANGED services
    /\ services_initialized' = (services_initialized \/ boot'.pc = "done")
    /\ UNCHANGED <<app, notSvcVars>>

\* The backoff sleep of the retrying wrapper is over.
BootSleepEnds ==
    /\ boot.pc = "sleeping"
    /\ boot' = [boot EXCEPT !.pc = "attempting", !.attempt = @ + 1]
    /\ UNCHANGED <<app, services, service_status, services_initialized,
                   circuit_breakers, failed, notSvcVars>>

\* startup_event after initialize_all_services: an exception is re-raised
\* and the application does not start; otherwise the six services are
\* fetched with get_service, which raises for a key that is not there.
StartupResumes ==
    /\ app = "starting"
    /\ boot.pc \in {"done", "raised"}
    /\ app' = IF boot.pc = "raised" THEN "failed"
              ELSE IF \E i \in DOMAIN StartupServices :
                          get_service(StartupServices[i]).error # "none"
              THEN "failed"
              ELSE "serving"
    /\ UNCHANGED <<boot, services, service_status, services_initialized,
                   circuit_breakers, failed, notSvcVars>>

\* ServiceManager.__init__ and the application before its startup.
SvcInit ==
    /\ app = "created"
    /\ boot = NoBoot
    /\ services = [k \in ServiceKeys |-> "absent"]
    /\ service_status = [s \in ServiceNames |-> FALSE]
    /\ services_initialized = FALSE
    /\ circuit_breakers = [n \in {"opensearch"} |-> "absent"]
    /\ failed = {}

SvcNext ==
    \/ startup_event
    \/ \E o \in {"ok", "ok_fallback", "fails"} : BootAttempt(o)
    \/ BootSleepEnds
    \/ StartupResumes

(***************************************************************************)
(* Context assembly (app.py:287-386): get_context_for_claude, a function   *)
(* of the combined hit list, the strategy, the budget and the flag.  A     *)
(* text is modelled by its number of characters.                           *)
(***************************************************************************)
\* The vault: chunk id -> the title of its document and its chunk text.
\* The ids are in the order of their keys.
ChunkIds == <<"a-0", "a-1", "b-0">>

vault ==
    [id \in {ChunkIds[i] : i \in DOMAIN ChunkIds} |->
        CASE id = "a-0" -> [title |-> "a", chunk |-> 13]
          [] id = "a-1" -> [title |-> "a", chunk |-> 5]
          [] id = "b-0" -> [title |-> "b", chunk |-> 6]]

ContextStrategy == {"full_docs", "smart_chunks", "hierarchical"}

\* parse_os_response and parse_semantic_response: the rank of a hit is its
\* position in its own list, from 0.
ParseHits(ids) == [i \in DOMAIN ids |-> [id |-> ids[i], rank |-> i - 1]]

\* The result lists of one search: distinct ids, MaxHits at most.
HitLists ==
    UNION {{s \in [1 .. k -> DOMAIN vault] :
               \A i, j \in 1 .. k : s[i] = s[j] => i = j} : k \in 0 .. MaxHits}

\* max_context_tokens is an int of the request model, without a constraint.
Budgets == -1 .. MaxBudget

ContextRequests ==
    [os_hits : HitLists, semantic_hits : HitLists, strategy : ContextStrategy,
     max_tokens : Budgets, include_full_docs : BOOLEAN]

\* A token per character.
estimate_per_char(chars) == chars

\* len(text) // 4
estimate_tokens(chars) == chars \div 4

\* df["score"] = 10 - rank; groupby("id").agg({"score": "sum"})
RECURSIVE Score(_, _)
Score(hits, id) ==
    IF hits = <<>> THEN 0
    ELSE (IF Head(hits).id = id THEN 10 - Head(hits).rank ELSE 0)
         + Score(Tail(hits), id)

\* The values of a sequence, each once, in the order of first appearance.
RECURSIVE Distinct(_)
Distinct(s) ==
    IF s = <<>> THEN <<>>
    ELSE LET d == Distinct(SubSeq(s, 1, Len(s) - 1))
         IN  IF \E i \in DOMAIN d : d[i] = s[Len(s)] THEN d
             ELSE Append(d, s[Len(s)])

\* sort_values("score", ascending=False) of the frame groupby built: the ids
\* by descending score.  groupby orders the ids by key and the sort's
\* default algorithm is not stable, so ids of equal score come in an order
\* the sort chooses, whatever the order of the hits.
Rankings(hits) ==
    LET ids == {hits[i].id : i \in DOMAIN hits}
    IN  {r \in [1 .. Cardinality(ids) -> ids] :
            /\ \A i, j \in DOMAIN r : r[i] = r[j] => i = j
            /\ \A i, j \in DOMAIN r :
                  i < j => Score(hits, r[i]) >= Score(hits, r[j])}

\* len("\n\n".join(chunks))
RECURSIVE JoinedLength(_)
JoinedLength(ids) ==
    IF ids = <<>> THEN 0
    ELSE IF Len(ids) = 1 THEN vault[ids[1]].chunk
    ELSE vault[ids[1]].chunk + 2 + JoinedLength(Tail(ids))

\* doc_groups.items(): the titles in the order of their first id, each with
\* the chunks of its ids in ranked order, as the full documents to try.
FullDocuments(ranked) ==
    LET titles == Distinct([i \in DOMAIN ranked |-> vault[ranked[i]].title])
        OfTitle(t) == SelectSeq(ranked, LAMBDA id : vault[id].title = t)
    IN  [g \in DOMAIN titles |->
            [title |-> titles[g], content |-> OfTitle(titles[g]),
             chars |-> JoinedLength(OfTitle(titles[g])),
             type |-> "full_document"]]

\* The chunks to try in the smart_chunks branch.
Chunks(ranked) ==
    [i \in DOMAIN ranked |->
        [title |-> vault[ranked[i]].title, content |-> <<ranked[i]>>,
         chars |-> vault[ranked[i]].chunk, type |-> "chunk"]]

NoParts == [context |-> <<>>, token_count |-> 0]

\* A loop that skips the item that does not fit and tries the next.
RECURSIVE AcceptSkipping(_, _, _)
AcceptSkipping(items, max_tokens, acc) ==
    IF items = <<>> THEN acc
    ELSE LET tokens == estimate_tokens(Head(items).chars)
         IN  IF acc.token_count + tokens <= max_tokens
             THEN AcceptSkipping(Tail(items), max_tokens,
                      [context |-> Append(acc.context, Head(items)),
                       token_count |-> acc.token_count + tokens])
             ELSE AcceptSkipping(Tail(items), max_tokens, acc)

\* for ...: if token_count + tokens <= max_tokens: append, add; else: break
RECURSIVE Accept(_, _, _)
Accept(items, max_tokens, acc) ==
    IF items = <<>> THEN acc
    ELSE LET tokens == estimate_tokens(Head(items).chars)
         IN  IF acc.token_count + tokens <= max_tokens
             THEN Accept(Tail(items), max_tokens,
                      [context |-> Append(acc.context, Head(items)),
                       token_count |-> acc.token_count + tokens])
             ELSE acc

\* if strategy == ContextStrategy.FULL_DOCS or include_full_docs
FullDocsBranch(strategy, include_full_docs) ==
    strategy = "full_docs" \/ include_full_docs

NoBundle == [status |-> "none", hits |-> <<>>, ranked |-> <<>>,
             context |-> <<>>, tokens_used |-> 0,
             documents_included |-> <<>>, strategy_used |-> "none"]

\* get_context_for_claude(os_hits + semantic_hits, ...).  An empty hit list
\* makes a frame without columns and df["rank"] raises KeyError.
get_context_for_claude(ranked) ==
    /\ assembly.out.status = "none"
    /\ LET req == assembly.req
           hits == ParseHits(req.os_hits) \o ParseHits(req.semantic_hits)
       IN  IF hits = <<>>
           THEN /\ ranked = <<>>
                /\ assembly' = [assembly EXCEPT !.out = [NoBundle EXCEPT !.status = "KeyError"]]
           ELSE /\ ranked \in Rankings(hits)
                /\ LET parts ==
                         IF FullDocsBranch(req.strategy, req.include_full_docs)
                         THEN Accept(FullDocuments(ranked), req.max_tokens, NoParts)
                         ELSE IF req.strategy = "hierarchical" THEN NoParts
                         ELSE Accept(Chunks(ranked), req.max_tokens, NoParts)
                   IN  assembly' = [assembly EXCEPT !.out =
                          [status |-> "returned", hits |-> hits, ranked |-> ranked,
                           context |-> parts.context,
                           tokens_used |-> parts.token_count,
                           documents_included |->
                              Distinct([i \in DOMAIN parts.context |->
                                           parts.context[i].title]),
                           strategy_used |-> req.strategy]]
    /\ UNCHANGED notCtxVars

NoRequest == [os_hits |-> <<>>, semantic_hits |-> <<>>, strategy |-> "smart_chunks",
              max_tokens |-> 0, include_full_docs |-> FALSE]

\* One request whose context is to be assembled.
CtxInit == \E req \in ContextRequests : assembly = [req |-> req, out |-> NoBundle]

CtxIdle == assembly = [req |-> NoRequest, out |-> NoBundle]

CtxNext ==
    \E ranked \in UNION {[1 .. k -> DOMAIN vault] : k \in 0 .. Len(ChunkIds)} :
        get_context_for_claude(ranked)

(***************************************************************************)
(* The /generate handler (app.py:389-534) from its first invocation of     *)
(* the generation tool: the direct invocation, the second one with the     *)
(* configured path, and the fallback with a context file.                  *)
(***************************************************************************)
\* How one subprocess.run ends: exit code 0, another exit code, the
\* builtin FileNotFoundError (no such executable), subprocess.TimeoutExpired.
RunOutcomes == {"ok", "nonzero", "builtins.FileNotFoundError", "TimeoutExpired"}

\* str(request.max_tokens or 4000)
MaxTokensArg(max_tokens) ==
    IF max_tokens = None \/ max_tokens = 0 THEN 4000 ELSE max_tokens

\* "except FileNotFoundError" in app.py: the name is the class imported
\* from src.exceptions (app.py:30-36), a CopilotError, which hides the
\* builtin of that name and which subprocess.run does not raise.
Caught(exc) == exc = "src.exceptions.FileNotFoundError"

NoGeneration ==
    [pc |-> "idle", max_tokens |-> None, runs |-> <<>>, tmp |-> "none",
     status |-> 0, served |-> 0]

\* One subprocess.run of the handler: the executable, how the context is
\* passed, the prompt on stdin and the --max-tokens argument.
Run(g, exe, how) ==
    [exe |-> exe, context |-> how,
     input |-> IF how = "--context" THEN "system_prompt+query" ELSE "full_prompt",
     max_tokens |-> MaxTokensArg(g.max_tokens), outcome |-> "running"]

\* A request arrives; retrieval and context assembly raise or the direct
\* invocation of "claude" starts.
generate_with_claude(max_tokens, retrieved) ==
    /\ generation.pc \in {"idle", "done"}
    /\ generation.served < MaxGenerations
    /\ generation' =
          LET g == [NoGeneration EXCEPT !.max_tokens = max_tokens,
                                        !.served = generation.served + 1]
          IN  IF retrieved
              THEN [g EXCEPT !.pc = "direct",
                             !.runs = <<Run(g, "claude", "stdin")>>]
              ELSE [g EXCEPT !.pc = "done", !.status = 500]
    /\ UNCHANGED <<claude_code_path, notGenVars>>

\* The subprocess.run in progress ends, and the handler goes on to its next
\* invocation or to its response.  HTTPException raised inside the outer
\* try is caught by "except Exception" and raised again with status 500.
SubprocessEnds(outcome, path_exists) ==
    /\ generation.pc \in {"direct", "direct_path", "fallback"}
    /\ outcome \in RunOutcomes
    /\ LET g == [generation EXCEPT !.runs[Len(generation.runs)].outcome = outcome]
           ended(status) == [g EXCEPT !.pc = "done", !.status = status,
                                      !.tmp = IF @ = "exists" THEN "deleted" ELSE @]
           configured == IF claude_code_path = "unset" THEN "/usr/local/bin/claude"
                         ELSE claude_code_path
           fallback_exe == IF claude_code_path = "unset" THEN "claude"
                           ELSE claude_code_path
       IN  generation' =
              IF generation.pc = "fallback"
              THEN \* try ... finally: os.unlink(context_file)
                   CASE outcome = "ok" -> ended(200)
                     [] outcome = "TimeoutExpired" -> ended(504)
                     [] OTHER -> ended(500)
              ELSE CASE outcome = "ok" -> ended(200)
                     [] outcome = "TimeoutExpired" -> ended(504)
                     [] outcome = "nonzero" ->
                           IF generation.pc = "direct" /\ path_exists
                           THEN [g EXCEPT !.pc = "direct_path",
                                          !.runs = Append(@, Run(g, configured, "stdin"))]
                           ELSE ended(500)
                     [] OTHER ->
                           IF Caught(outcome)
                           THEN [g EXCEPT !.pc = "fallback", !.tmp = "exists",
                                          !.runs = Append(@, Run(g, fallback_exe,
                                                                 "--context"))]
                           ELSE ended(500)
    /\ UNCHANGED <<claude_code_path, notGenVars>>

\* The environment variable CLAUDE_CODE_PATH is set or not.
GenInit ==
    /\ claude_code_path \in {"unset", "/opt/claude"}
    /\ generation = NoGeneration

GenIdle ==
    /\ claude_code_path = "unset"
    /\ generation = NoGeneration

GenNext ==
    \/ \E m \in {None, 0, 100}, retrieved \in BOOLEAN :
          generate_with_claude(m, retrieved)
    \/ \E o \in RunOutcomes, path_exists \in BOOLEAN :
          SubprocessEnds(o, path_exists)

(***************************************************************************)
(* ParallelBasicMemory.store_agent_patterns_parallel and its batches       *)
(* (agent_memory.py:764-873).                                              *)
(***************************************************************************)
\* MemoryEntry.entry_type
EntryTypes == {"pattern", "insight", "metric"}

\* How the write of one group ends: the tool exits with code 0, it exits
\* with another code, or invoking it raises an error.
BatchOutcomes == {"exit_0", "exit_nonzero", "error"}

\* _store_entries_batch: True when process.returncode == 0, False otherwise;
\* except Exception returns False, so the coroutine raises nothing.
_store_entries_batch(outcome) == outcome = "exit_0"

\* results[entry_type] = not isinstance(result, Exception), for the boolean
\* the batch returned.
Reported(result) == result \in BOOLEAN

NoPatternStore == [pc |-> "idle", types |-> <<>>, outcomes |-> <<>>,
                   results |-> <<>>]

\* The entries are grouped by type, in the order of first appearance, and
\* one task per group is created; the caller awaits gather.
store_agent_patterns_parallel(entries) ==
    /\ pattern_store.pc = "idle"
    /\ pattern_store' =
          LET types == Distinct(entries)
          IN  [pc |-> "gathering", types |-> types,
               outcomes |-> [i \in DOMAIN types |-> "pending"],
               results |-> <<>>]
    /\ UNCHANGED notPatternVars

\* The tool invocation of one group ends; the other groups go on.
BatchEnds(i, outcome) ==
    /\ pattern_store.pc = "gathering"
    /\ i \in DOMAIN pattern_store.outcomes
    /\ pattern_store.outcomes[i] = "pending"
    /\ pattern_store' = [pattern_store EXCEPT !.outcomes[i] = outcome]
    /\ UNCHANGED notPatternVars

\* gather returns the booleans of the batches; the map by type is built.
PatternGatherReturns ==
    /\ pattern_store.pc = "gathering"
    /\ \A i \in DOMAIN pattern_store.outcomes : pattern_store.outcomes[i] # "pending"
    /\ pattern_store' =
          [pattern_store EXCEPT
              !.pc = "returned",
              !.results = [i \in DOMAIN pattern_store.types |->
                              Reported(_store_entries_batch(pattern_store.outcomes[i]))]]
    /\ UNCHANGED notPatternVars

\* ParallelBasicMemory.__init__
PatternInit == pattern_store = NoPatternStore

PatternNext ==
    \/ \E entries \in UNION {[1 .. k -> EntryTypes] : k \in 0 .. MaxEntries} :
          store_agent_patterns_parallel(entries)
    \/ \E i \in 1 .. MaxEntries, o \in BatchOutcomes : BatchEnds(i, o)
    \/ PatternGatherReturns

(***************************************************************************)
(* HealthChecker (utils/retry.py:204-242).  time.time() is the clock now;  *)
(* it is never 0.0 in a run of the program, so "self.last_health_check     *)
(* and ..." is modelled as the test against None.                          *)
(***************************************************************************)
HealthCallers == 1 .. MaxHealthCalls

NoHealthCall == [pc |-> "idle", current_time |-> None, result |-> FALSE]

\* check_health up to its return of the memoized result or to the await of
\* the probe; probes logs the time of every invocation of the probe.
check_health(c) ==
    /\ health.calls[c].pc = "idle"
    /\ \A d \in HealthCallers : d < c => health.calls[d].pc # "idle"
    /\ health' =
          IF /\ health.last_health_check # None
             /\ now - health.last_health_check < health_check_interval
          THEN [health EXCEPT !.calls[c] =
                   [pc |-> "returned", current_time |-> now,
                    result |-> health._is_healthy]]
          ELSE [health EXCEPT !.calls[c] =
                   [pc |-> "probing", current_time |-> now, result |-> FALSE],
                              !.probes = Append(@, now)]
    /\ UNCHANGED notHealthVars

\* The awaited probe returns a boolean or raises; check_health resumes.
ProbeEnds(c, outcome) ==
    /\ health.calls[c].pc = "probing"
    /\ health' =
          IF outcome = "raises"
          THEN \* except Exception: last_health_check is left as it was
               [health EXCEPT !._is_healthy = FALSE,
                              !.calls[c].pc = "returned",
                              !.calls[c].result = FALSE]
          ELSE [health EXCEPT !._is_healthy = (outcome = "true"),
                              !.last_health_check = health.calls[c].current_time,
                              !.calls[c].pc = "returned",
                              !.calls[c].result = (outcome = "true")]
    /\ UNCHANGED notHealthVars

\* HealthChecker.__init__
HealthInit ==
    health = [last_health_check |-> None, _is_healthy |-> FALSE,
              calls |-> [c \in HealthCallers |-> NoHealthCall], probes |-> <<>>]

HealthNext ==
    \/ \E c \in HealthCallers : check_health(c)
    \/ \E c \in HealthCallers, o \in {"true", "false", "raises"} : ProbeEnds(c, o)
    \/ Tick

(***************************************************************************)
(* The /synthesize_notes handler (app.py:650-730).                         *)
(***************************************************************************)
\* The note references of a request: titles of the vault and one that no
\* document has.
NotePaths == {vault[id].title : id \in DOMAIN vault} \cup {"missing"}

SynthesisTypes == {"summary", "outline", "connections", "other"}

\* notes_content: one item for every requested path that is the title of
\* a chunk of the vault, in the order of the request.
Resolved(note_paths) ==
    SelectSeq(note_paths, LAMBDA p : \E id \in DOMAIN vault : vault[id].title = p)

\* if not notes_content: raise HTTPException(status_code=404)
TooFew(notes_content) == notes_content = <<>>

NoSynthesis == [pc |-> "idle", note_paths |-> <<>>, type |-> "summary",
                notes_content |-> <<>>, invoked |-> FALSE, status |-> 0,
                notes_synthesized |-> 0]

\* A request arrives: the notes are resolved and the handler answers 404 or
\* invokes the generation tool.
synthesize_notes(note_paths, type) ==
    /\ synthesis.pc = "idle"
    /\ synthesis' =
          LET notes_content == Resolved(note_paths)
              s == [NoSynthesis EXCEPT !.note_paths = note_paths, !.type = type,
                                       !.notes_content = notes_content]
          IN  IF TooFew(notes_content)
              THEN [s EXCEPT !.pc = "done", !.status = 404]
              ELSE [s EXCEPT !.pc = "running", !.invoked = TRUE]
    /\ UNCHANGED notSynVars

\* subprocess.run ends: the answer, or an HTTPException with status 500
\* for a non-zero exit code and for every exception.
SynthesisEnds(outcome) ==
    /\ synthesis.pc = "running"
    /\ synthesis' =
          IF outcome = "ok"
          THEN [synthesis EXCEPT !.pc = "done", !.status = 200,
                   !.notes_synthesized = Len(synthesis.notes_content)]
          ELSE [synthesis EXCEPT !.pc = "done", !.status = 500]
    /\ UNCHANGED notSynVars

SynInit == synthesis = NoSynthesis

SynNext ==
    \/ \E paths \in UNION {[1 .. k -> NotePaths] : k \in 0 .. MaxPaths},
          type \in SynthesisTypes : synthesize_notes(paths, type)
    \/ \E o \in RunOutcomes : SynthesisEnds(o)

(***************************************************************************)
(* AgentMemory.learn_from_execution and _detect_patterns for one agent     *)
(* (agent_memory.py:281-345, 610-634).                                     *)
(***************************************************************************)
\* The task texts passed to learn_from_execution; the second contains the
\* first.
TaskTexts == {<<"a">>, <<"a", "b">>}

\* "task in str(e.get('content', ''))": the content of an execution memory
\* holds its task text.
Mentions(content, task) ==
    \E i \in 1 .. Len(content) - Len(task) + 1 :
        SubSeq(content, i, i + Len(task) - 1) = task

\* [e for e in past_executions if task in str(e.get('content', ''))]
similar_tasks(past_executions, task) ==
    SelectSeq(past_executions, LAMBDA e : Mentions(e, task))

\* AgentMemory._detect_patterns, from the recalled executions on; the
\* confidence min(len(similar_tasks) / 10, 1.0) is counted in tenths.
_detect_patterns(past_executions, task) ==
    LET similar == similar_tasks(past_executions, task)
    IN  IF Len(similar) > 3
        THEN <<[pattern |-> task, count |-> Len(similar),
                confidence |-> IF Len(similar) < 10 THEN Len(similar) ELSE 10]>>
        ELSE <<>>

\* What search_notes finds when the cache holds no execution of the agent:
\* notes an earlier process wrote, or nothing (also when the search fails).
FoundExecutions == {<<>>} \cup {<<t>> : t \in TaskTexts}

NoLearning == [task |-> <<>>, execution_path |-> "", cache_hit |-> FALSE,
               past_executions |-> <<>>, patterns |-> <<>>]

\* One call of learn_from_execution for the agent.  store_memory appends
\* the execution to the cache bucket unless write_note raises, in which
\* case it returns ""; _detect_patterns then recalls the executions with
\* the default limit of 10, from the bucket when it is not empty, and every
\* pattern it returns is passed to store_memory.
learn_from_execution(task, written, found) ==
    /\ learning.calls < MaxLearnCalls
    /\ LET executions == IF written THEN Append(learning.executions, task)
                         ELSE learning.executions
           cache_hit == executions # <<>>
           past_executions == IF cache_hit THEN LastItems(executions, 10)
                              ELSE found
       IN  learning' =
              [executions |-> executions,
               calls |-> learning.calls + 1,
               last |-> [task |-> task,
                         execution_path |-> IF written THEN "path" ELSE "",
                         cache_hit |-> cache_hit,
                         past_executions |-> past_executions,
                         patterns |-> _detect_patterns(past_executions, task)]]
    /\ UNCHANGED notLearnVars

\* AgentMemory.__init__: an empty cache.
LearnInit == learning = [executions |-> <<>>, calls |-> 0, last |-> NoLearning]

LearnNext ==
    \E task \in TaskTexts, written \in BOOLEAN, found \in FoundExecutions :
        learn_from_execution(task, written, found)

(***************************************************************************)
(* AgentMemory.share_learning_between_agents and _is_shareable             *)
(* (agent_memory.py:509-567, 708-718), with the memories of one source     *)
(* agent.                                                                  *)
(***************************************************************************)
\* The memory types shared by default, in the order of the default list.
DefaultTypes == <<"pattern", "insight">>

ShareTypes == {"pattern", "insight"}

\* The memory_types argument; <<>> stands for None.
TypeLists == {<<>>, <<"pattern">>, <<"insight", "pattern">>}

\* The tags argument of store_memory for a memory of the source agent.
TagLists == {<<>>, <<"user-specific">>}

\* The memories recall_memories returns: an entry of the cache is
\* {'timestamp', 'content', 'path'} with the content as it was passed to
\* store_memory (a dict); an entry built from a search result is {'path',
\* 'title', 'content', 'created', 'type'} with the note's markdown text as
\* content.  Neither holds a 'tags' key.  note is the index of the note.
CacheMemory(note) ==
    [note |-> note, content |-> "dict",
     keys |-> {"timestamp", "content", "path"}]

SearchMemory(note) ==
    [note |-> note, content |-> "markdown",
     keys |-> {"path", "title", "content", "created", "type"}]

\* The notes of one type, as indexes in the order they were written.
NotesOfType(written, type) ==
    LET Pick(i) == written[i].type = type
    IN  SelectSeq([i \in DOMAIN written |-> i], Pick)

\* recall_memories(source_agent, memory_type, timeframe="30d", limit=20):
\* the last entries of the cache bucket when it is not empty, else the
\* result of the search (nothing when the search fails).
recall_for_sharing(S, type, search_ok) ==
    IF S.cache[type] # <<>>
    THEN [i \in DOMAIN LastItems(S.cache[type], 20) |->
             CacheMemory(LastItems(S.cache[type], 20)[i])]
    ELSE IF search_ok
         THEN [i \in DOMAIN FirstItems(NotesOfType(S.notes, type), 20) |->
                  SearchMemory(FirstItems(NotesOfType(S.notes, type), 20)[i])]
         ELSE <<>>

\* memory.get('tags', [])
MemoryTags(S, m) ==
    IF "tags" \in m.keys THEN S.notes[m.note].tags ELSE <<>>

\* AgentMemory._is_shareable: the text of the content mentions
\* "agent-specific" when the content passed to store_memory did (the
\* markdown of a note holds a dump of its content).
_is_shareable(S, m) ==
    /\ ~\E i \in DOMAIN MemoryTags(S, m) : MemoryTags(S, m)[i] = "user-specific"
    /\ ~S.notes[m.note].agent_specific

\* "if isinstance(content, str): try: json.loads(content) except: continue":
\* the markdown text of a note is not JSON.
Unparsable(m) == m.content = "markdown"

\* The memories of one type that reach store_memory for the target agent.
Restorable(S, memories) ==
    LET Pick(m) == _is_shareable(S, m) /\ ~Unparsable(m)
    IN  SelectSeq(memories, Pick)

NoShare == [pc |-> "idle", types |-> <<>>, recalled |-> <<>>,
            restored |-> <<>>, shared_count |-> <<>>]

\* store_memory(source_agent, type, content, tags) with a working client:
\* the note is written with its tags and the cache entry appended.
store_source_memory(type, agent_specific, tags) ==
    /\ Len(sharing.notes) < MaxShareStores
    /\ sharing' = [sharing EXCEPT
          !.notes = Append(@, [type |-> type, agent_specific |-> agent_specific,
                               tags |-> tags]),
          !.cache[type] = Append(@, Len(sharing.notes) + 1)]
    /\ UNCHANGED notShareVars

\* The process is restarted: a new AgentMemory has an empty cache, the
\* notes stay in Basic Memory.
MemoryRestarted ==
    /\ \E t \in ShareTypes : sharing.cache[t] # <<>>
    /\ sharing' = [sharing EXCEPT !.cache = [t \in ShareTypes |-> <<>>]]
    /\ UNCHANGED notShareVars

\* One call of share_learning_between_agents(source, target, memory_types);
\* last holds the latest call: recalled, restored and shared_count are
\* kept per requested type, in the order of the request; shared_count has
\* no key for a type of which nothing was shared (0 here).
share_learning_between_agents(memory_types, search_ok) ==
    /\ LET types == IF memory_types = <<>> THEN DefaultTypes ELSE memory_types
           recalled == [i \in DOMAIN types |->
                           recall_for_sharing(sharing, types[i], search_ok)]
           restored == [i \in DOMAIN types |-> Restorable(sharing, recalled[i])]
       IN  sharing' = [sharing EXCEPT !.last =
              [pc |-> "done", types |-> types, recalled |-> recalled,
               restored |-> restored,
               shared_count |-> [i \in DOMAIN types |-> Len(restored[i])]]]
    /\ UNCHANGED notShareVars

\* AgentMemory.__init__ and an empty Basic Memory project.
ShareInit ==
    sharing = [notes |-> <<>>, cache |-> [t \in ShareTypes |-> <<>>],
               last |-> NoShare]

ShareNext ==
    \/ \E type \in ShareTypes, agent_specific \in BOOLEAN, tags \in TagLists :
          store_source_memory(type, agent_specific, tags)
    \/ MemoryRestarted
    \/ \E memory_types \in TypeLists, search_ok \in BOOLEAN :
          share_learning_between_agents(memory_types, search_ok)

(***************************************************************************)
(* EnhancedVaultAnalyzer._analyze_tags and _find_tag_clusters              *)
(* (agents_enhanced.py:304-342).                                           *)
(***************************************************************************)
\* The tags found in the documents, in the order a document's text has
\* them.
TagOrder == <<"a", "b", "p", "q", "x">>

Tags == {TagOrder[i] : i \in DOMAIN TagOrder}

\* re.findall(r'#(\w+)', content) for one document: up to three tags.
DocTags == {SelectSeq(TagOrder, LAMBDA t : t \in ts) :
               ts \in {s \in SUBSET Tags : Cardinality(s) <= 3}}

\* vault_dict.values(), as the tags of each document.
Vaults == UNION {[1 .. k -> DocTags] : k \in 0 .. MaxDocs}

\* The keys of tag_cooccurrence in insertion order: the tags in the order
\* they first appear.
RECURSIVE TagsSeen(_)
TagsSeen(docs) ==
    IF docs = <<>> THEN <<>>
    ELSE Distinct(TagsSeen(SubSeq(docs, 1, Len(docs) - 1)) \o docs[Len(docs)])

\* tag_cooccurrence[tag]: the tags of the documents that hold the tag.
tag_cooccurrence(docs) ==
    [tag \in {TagsSeen(docs)[i] : i \in DOMAIN TagsSeen(docs)} |->
        UNION {{docs[d][j] : j \in DOMAIN docs[d]} :
                  d \in {e \in DOMAIN docs :
                            \E j \in DOMAIN docs[e] : docs[e][j] = tag}}]

\* The cluster built for one tag: the tag and every related tag whose own
\* set shares more than 2 tags with the set of the tag.  A cluster is kept
\* as the set of its tags.
ClusterOf(cooccurrence, tag) ==
    {tag} \cup {related_tag \in cooccurrence[tag] :
                   /\ related_tag # tag
                   /\ Cardinality(cooccurrence[related_tag]
                                     \cap cooccurrence[tag]) > 2}

\* The loop of _find_tag_clusters over cooccurrence.items().
RECURSIVE ClusterLoop(_, _, _, _)
ClusterLoop(cooccurrence, items, clusters, processed) ==
    IF items = <<>> THEN clusters
    ELSE LET tag == Head(items)
             cluster == ClusterOf(cooccurrence, tag)
         IN  IF tag \in processed
             THEN ClusterLoop(cooccurrence, Tail(items), clusters, processed)
             ELSE ClusterLoop(cooccurrence, Tail(items),
                              IF Cardinality(cluster) > 1
                              THEN Append(clusters, cluster) ELSE clusters,
                              processed \cup cluster)

\* EnhancedVaultAnalyzer._find_tag_clusters: clusters[:5]
_find_tag_clusters(cooccurrence, items) ==
    FirstItems(ClusterLoop(cooccurrence, items, <<>>, {}), 5)

\* EnhancedVaultAnalyzer._analyze_tags, for its 'tag_clusters'.
_analyze_tags ==
    /\ tagging.pc = "idle"
    /\ tagging' = [tagging EXCEPT
          !.pc = "done",
          !.tag_clusters = _find_tag_clusters(tag_cooccurrence(tagging.vault),
                                              TagsSeen(tagging.vault))]
    /\ UNCHANGED notTagVars

\* An analyzer constructed with a vault.
TagInit ==
    tagging \in [vault : Vaults, pc : {"idle"}, tag_clusters : {<<>>}]

TagIdle == tagging = [vault |-> <<>>, pc |-> "idle", tag_clusters |-> <<>>]

TagNext == _analyze_tags

(***************************************************************************)
(* EnhancedVaultAnalyzer._generate_insights (agents_enhanced.py:477-504),  *)
(* applied to the map execute_parallel returns for the analysis tasks.     *)
(***************************************************************************)
\* What execute_parallel holds for a task that raised: {'error': str(e)}.
ErrorDict == [type |-> "dict", error |-> TRUE, len |-> 1, value |-> 0]

\* The dict of _get_vault_statistics, with its 'total_notes'.
Statistics(total_notes) ==
    [type |-> "dict", error |-> FALSE, len |-> 5, value |-> total_notes]

\* The list of _find_orphaned_notes (at most 10 titles).
OrphanedNotes(n) == [type |-> "list", error |-> FALSE, len |-> n, value |-> 0]

\* The list of _detect_emerging_themes.
EmergingThemes(n) == [type |-> "list", error |-> FALSE, len |-> n, value |-> 0]

\* The dict of _calculate_quality_metrics, with its 'connectivity' in
\* tenths.
QualityMetrics(connectivity) ==
    [type |-> "dict", error |-> FALSE, len |-> 4, value |-> connectivity]

AnalysisResults ==
    [statistics : {Statistics(100), Statistics(101), ErrorDict},
     orphaned_notes : {OrphanedNotes(5), OrphanedNotes(6), ErrorDict},
     emerging_themes : {EmergingThemes(0), EmergingThemes(3), ErrorDict},
     quality_metrics : {QualityMetrics(4), QualityMetrics(5), ErrorDict}]

\* d.get(key, 0) for the one key read of a task's dict: an error dict does
\* not hold it.
GetOrZero(d) == IF d.error THEN 0 ELSE d.value

\* EnhancedVaultAnalyzer._generate_insights: the sentences appended, by
\* their subject, or the exception raised.  themes[0] of an error dict
\* raises KeyError.
_generate_insights(r) ==
    LET stats == IF r.statistics.type # "dict" /\ GetOrZero(r.statistics) > 100
                 THEN <<"total_notes">> ELSE <<>>
        orphaned == IF r.orphaned_notes.len > 5
                    THEN <<"orphaned_notes">> ELSE <<>>
        themes == IF r.emerging_themes.len > 0
                  THEN <<"emerging_theme">> ELSE <<>>
        metrics == IF GetOrZero(r.quality_metrics) < 5
                   THEN <<"connectivity">> ELSE <<>>
    IN  IF r.emerging_themes.len > 0 /\ r.emerging_themes.type = "dict"
        THEN [raised |-> "KeyError", insights |-> <<>>]
        ELSE [raised |-> "none",
              insights |-> stats \o orphaned \o themes \o metrics]

\* analyze_vault_parallel calls _generate_insights(results).
GenerateInsights ==
    /\ derivation.pc = "idle"
    /\ derivation' = [derivation EXCEPT
          !.pc = "done", !.outcome = _generate_insights(derivation.results)]
    /\ UNCHANGED notDeriveVars

NoOutcome == [raised |-> "none", insights |-> <<>>]

\* The analysis tasks have ended with their results.
DeriveInit ==
    derivation \in [results : AnalysisResults, pc : {"idle"},
                    outcome : {NoOutcome}]

DeriveIdle ==
    derivation = [results |-> [statistics |-> ErrorDict,
                               orphaned_notes |-> ErrorDict,
                               emerging_themes |-> ErrorDict,
                               quality_metrics |-> ErrorDict],
                  pc |-> "idle", outcome |-> NoOutcome]

DeriveNext == GenerateInsights

\* The components of which a specification makes no call.
BackIdle == RetryDefault /\ ExecInit /\ EnhInit /\ MemDefault /\ SvcInit

AuxIdle == LearnInit /\ ShareInit /\ TagIdle /\ DeriveIdle

ApiIdle == CtxIdle /\ GenIdle /\ PatternInit /\ HealthInit /\ SynInit /\ AuxIdle

OthersIdle == BackIdle /\ ApiIdle

\* The manager and the scheduler alone.
CoreIdle == AgentInit /\ BreakerDefault /\ now = 0

InitAgents == CoreIdle /\ OthersIdle

SpecAgents == InitAgents /\ [][AgentNext]_vars

\* The scheduler started and stopped, its jobs and its monitoring loops.
SpecLoops == InitAgents /\ [][LoopNext]_vars

\* The scheduler started and stopped and its monitoring loops, without the
\* jobs of the scheduled agents.
MonitorNext ==
    \/ start
    \/ stop
    \/ \E l \in Loops : LoopResumes(l)
    \/ \E c \in CallIds, o \in Outcomes : TaskEnds(c, o)
    \/ Tick

SpecMonitors == InitAgents /\ [][MonitorNext]_vars

\* One circuit breaker and its callers alone.
InitBreaker == AgentInit /\ BreakerInit /\ now = 0 /\ OthersIdle

SpecBreaker == InitBreaker /\ [][BreakerNext]_vars

\* One function decorated with retry_with_backoff and its calls.
InitRetry ==
    CoreIdle /\ RetryInit /\ ExecInit /\ EnhInit /\ MemDefault /\ SvcInit /\ ApiIdle

SpecRetry == InitRetry /\ [][RetryNext]_vars

\* One ParallelExecutor and its batches.
InitExec == CoreIdle /\ OthersIdle

\* The enhanced manager, its cache and its calls.
InitEnhanced == CoreIdle /\ OthersIdle

SpecEnhanced == InitEnhanced /\ [][EnhNext]_vars

\* The primary memory store, its cache and the external note-store.
InitMemory ==
    CoreIdle /\ RetryDefault /\ ExecInit /\ EnhInit /\ MemInit /\ SvcInit /\ ApiIdle

SpecMemory == InitMemory /\ [][MemNext]_vars

\* The service manager bootstrapped by the application's startup.
InitServices == CoreIdle /\ OthersIdle

SpecServices == InitServices /\ [][SvcNext]_vars

SpecExec == InitExec /\ [][ExecNext]_vars

\* The manager and the scheduler's entry points with dispatches that raise.
DispatchNext ==
    \/ \E n \in RequestNames : execute_agent(n)
    \/ \E n \in RequestNames : execute_scheduled_agent(n)
    \/ \E n \in RequestNames : trigger_agent(n)
    \/ \E c \in CallIds, o \in Outcomes : TaskEnds(c, o)
    \/ \E n \in RequestNames : ScheduledDispatchRaises(n)
    \/ \E n \in RequestNames : ManualDispatchRaises(n)

SpecDispatch == InitAgents /\ [][DispatchNext]_vars

\* Context assembly applied to one request.
InitContext ==
    /\ CoreIdle /\ BackIdle
    /\ CtxInit /\ GenIdle /\ PatternInit /\ HealthInit /\ SynInit /\ AuxIdle

SpecContext == InitContext /\ [][CtxNext]_vars

\* One call of store_agent_patterns_parallel and its batches.
InitPatterns == CoreIdle /\ OthersIdle

SpecPatterns == InitPatterns /\ [][PatternNext]_vars

\* One HealthChecker, its callers and the clock.
SpecHealth == InitAgents /\ [][HealthNext]_vars

\* The /synthesize_notes handler and the generation tool.
SpecSynthesis == InitAgents /\ [][SynNext]_vars

\* The /generate handler and the generation tool.
InitGenerate ==
    /\ CoreIdle /\ BackIdle
    /\ CtxIdle /\ GenInit /\ PatternInit /\ HealthInit /\ SynInit /\ AuxIdle

SpecGenerate == InitGenerate /\ [][GenNext]_vars

\* learn_from_execution called repeatedly for one agent.
SpecLearning == InitAgents /\ [][LearnNext]_vars

\* The memories of a source agent and their sharing with a target.
SpecSharing == InitAgents /\ [][ShareNext]_vars

\* The tag analysis of one vault.
InitTagging ==
    /\ CoreIdle /\ BackIdle
    /\ CtxIdle /\ GenIdle /\ PatternInit /\ HealthInit /\ SynInit
    /\ LearnInit /\ ShareInit /\ TagInit /\ DeriveIdle

SpecTagging == InitTagging /\ [][TagNext]_vars

\* The insight derivation for one map of task results.
InitDerivation ==
    /\ CoreIdle /\ BackIdle
    /\ CtxIdle /\ GenIdle /\ PatternInit /\ HealthInit /\ SynInit
    /\ LearnInit /\ ShareInit /\ TagIdle /\ DeriveInit

SpecDerivation == InitDerivation /\ [][DeriveNext]_vars

(***************************************************************************)
(* Properties of the circuit breaker.                                      *)
(***************************************************************************)
\* Caller c enters the wrapper in this step.
Calls(c) == wrapped[c].pc = "idle" /\ wrapped'[c] # wrapped[c]

\* func, awaited for caller c, ends in this step with result r.
Ends(c, r) ==
    wrapped[c].pc = "running" /\ wrapped'[c].pc = "idle" /\ wrapped'[c].result = r

\* C4: a call made while the breaker is Open and the recovery timeout has
\* not elapsed since the last failure gets ServiceUnavailableError, func is
\* not invoked, and state, failure_count and last_failure_time stay as
\* they are.
C4_OpenFailsFast ==
    [][\A c \in Callers :
        ( /\ Calls(c)
          /\ state = "open"
          /\ last_failure_time # None
          /\ now - last_failure_time < recovery_timeout ) =>
            /\ wrapped'[c].pc = "idle"
            /\ wrapped'[c].result = "unavailable"
            /\ UNCHANGED <<state, failure_count, last_failure_time>>]_vars

C4_Witness ==
    /\ state = "open"
    /\ now - last_failure_time < recovery_timeout
    /\ \E c \in Callers : wrapped[c].result = "unavailable"

\* C5: the breaker is Closed exactly as long as fewer than failure_threshold
\* matching failures have occurred since the last success, the failure that
\* reaches the threshold opens it, and a failure that does not match
\* expected_exception changes neither the counter nor the state.
C5_OpensAtThreshold ==
    [][ /\ (state' = "closed") <=> (streak' < failure_threshold)
        /\ failure_count' = streak'
        /\ (streak < failure_threshold /\ streak' >= failure_threshold) =>
              state' = "open"
        /\ \A c \in Callers :
              Ends(c, "other") =>
                  UNCHANGED <<state, failure_count, last_failure_time>>]_vars

C5_Witness ==
    /\ state = "open"
    /\ failure_threshold = 2
    /\ streak = failure_threshold
    /\ \E c \in Callers : wrapped[c].result = "other"

\* C6: a call made while the breaker is Open and the recovery timeout has
\* elapsed since the last failure goes on to func with the breaker in
\* HalfOpen, and when a call succeeds the breaker is Closed with
\* failure_count = 0.
C6_ProbeAfterTimeout ==
    [][\A c \in Callers :
        /\ ( /\ Calls(c)
              /\ state = "open"
              /\ last_failure_time # None
              /\ now - last_failure_time >= recovery_timeout ) =>
                /\ wrapped'[c].pc = "running"
                /\ wrapped'[c].entered = "half_open"
                /\ state' = "half_open"
        /\ Ends(c, "success") =>
                (state' = "closed" /\ failure_count' = 0)]_vars

C6_Witness ==
    /\ state = "closed"
    /\ failure_count = 0
    /\ last_failure_time # None
    /\ \E c \in Callers :
          wrapped[c].entered = "half_open" /\ wrapped[c].result = "success"

\* C7: of the calls that found the breaker HalfOpen (or made it so), at most
\* one is inside func at any time.
C7_OneProbe ==
    Cardinality({c \in Callers : wrapped[c].pc = "running"
                                  /\ wrapped[c].entered = "half_open"}) <= 1

(***************************************************************************)
(* Properties of AgentScheduler.start and stop.                            *)
(***************************************************************************)
\* C3: after stop() every launched monitoring loop is cancelled: a loop that
\* is asleep when or after stop() is called does nothing more than end, so
\* it runs no further condition check and fires no agent.
C3_StopCancelsLoops ==
    [][scheduler_state = "shutdown" =>
        \A l \in Loops :
            (loops[l].pc = "sleeping" /\ loops'[l] # loops[l]) =>
                loops'[l].pc = "done"]_vars

(***************************************************************************)
(* Properties of AgentManager.execute_agent and of the scheduler history.  *)
(***************************************************************************)
InFlight(n) == {c \in CallIds : calls[c].pc = "awaiting" /\ calls[c].name = n}

\* C1: for every agent name at most one launched execution is unresolved at
\* any time, i.e. every call made while one is unresolved is rejected.
C1_AtMostOneInFlight ==
    \A n \in agents : Cardinality(InFlight(n)) <= 1

\* C2: the scheduler's execution history never holds more than max_history
\* records, whatever mix of scheduled and manual firings produced it.
C2_HistoryCapped ==
    Len(execution_history) <= max_history

\* The step is the arrival of a new execute_agent call for n.
Arrives(n) ==
    /\ ncalls' = ncalls + 1
    /\ calls'[ncalls'].name = n

\* C8: a call that arrives for a name while an earlier call for that name is
\* unresolved returns "running" at once, launches nothing, raises nothing
\* and appends nothing to the agent's history.
C8_SecondCallRunning ==
    [][\A n \in agents :
        (Arrives(n) /\ InFlight(n) # {}) =>
            /\ calls'[ncalls'].pc = "returned"
            /\ calls'[ncalls'].status = "running"
            /\ ~calls'[ncalls'].launched
            /\ calls'[ncalls'].raised = "none"
            /\ agent_memory' = agent_memory]_vars

\* C9: when a call that launched an execution returns and no other
\* invocation of the name is in progress, the name is absent from
\* running_agents, and a call that arrives then is not answered "running".
C9_MarkerCleared ==
    [][\A n \in agents :
        /\ \A c \in CallIds :
              ( /\ calls[c].pc = "awaiting" /\ calls[c].name = n
                /\ calls'[c].pc = "returned"
                /\ InFlight(n)' = {} ) => running_agents'[n] = NoTask
        /\ (InFlight(n) = {}) => running_agents[n] = NoTask
        /\ (Arrives(n) /\ InFlight(n) = {}) =>
              calls'[ncalls'].status # "running"]_vars

\* A launched call has returned after each kind of ending, the marker is
\* gone and a later call for the name was launched again.
C9_Witness ==
    \E c, d \in CallIds :
        /\ c < d
        /\ calls[c].pc = "returned" /\ calls[c].launched
        /\ calls[c].outcome = "timeout"
        /\ calls[d].name = calls[c].name /\ calls[d].launched
        /\ calls[d].pc = "returned" /\ calls[d].outcome = "failed"
        /\ running_agents[calls[c].name] = NoTask

\* C10: a call whose execution ran into the timeout returns a response with
\* status "failed" whose error names the timeout, and no exception leaves
\* execute_agent.
C10_TimeoutIsFailedResponse ==
    \A c \in CallIds :
        (calls[c].pc = "returned" /\ calls[c].outcome = "timeout") =>
            /\ calls[c].status = "failed"
            /\ calls[c].error = "timed_out"
            /\ calls[c].raised = "none"

C10_Witness ==
    \E c \in CallIds :
        /\ calls[c].pc = "returned" /\ calls[c].outcome = "timeout"
        /\ calls[c].origin = "scheduled"

\* The calls for n whose execution was launched and handed its response back
\* to execute_agent, which returned it.
Finished(n) ==
    {c \in CallIds : /\ calls[c].pc = "returned" /\ calls[c].name = n
                      /\ calls[c].launched
                      /\ calls[c].outcome \in {"completed", "failed"}}

\* C11: every call that launched an execution and returned the response of
\* that execution has exactly one record in the agent's history, no other
\* call has one, and nothing is ever removed: the length of the history is
\* the number of finished executions.
C11_HistoryCountsExecutions ==
    \A n \in agents :
        /\ Len(agent_memory[n]) = Cardinality(Finished(n))
        /\ \A c \in CallIds :
              Cardinality({i \in DOMAIN agent_memory[n] :
                              agent_memory[n][i].call = c})
                  = IF c \in Finished(n) THEN 1 ELSE 0
        /\ \A i \in DOMAIN agent_memory[n] :
              agent_memory[n][i].status = calls[agent_memory[n][i].call].status

\* Three executions of one agent have finished and all three are recorded.
C11_Witness ==
    \E n \in agents :
        /\ Len(agent_memory[n]) = 3
        /\ Len(agent_memory[n]) > max_history
        /\ Cardinality(Finished(n)) = 3

(***************************************************************************)
(* Properties of retry_with_backoff.                                       *)
(***************************************************************************)
\* C12: one call of the wrapper invokes func at most max_retries + 1 times;
\* every invocation but the last failed with a matching exception; the
\* wrapper returns exactly when the last invocation succeeded; a
\* non-matching failure leaves the wrapper at once; a matching failure
\* leaves it only from invocation max_retries + 1; and the exception that
\* leaves is the one the last invocation raised.
C12_RetryBounded ==
    LET n == Len(func_log)
    IN  /\ n <= max_retries + 1
        /\ \A i \in 1 .. n - 1 : func_log[i] \in exceptions
        /\ (retry_pc = "returned") <=> (n > 0 /\ func_log[n] = "success")
        /\ (retry_pc = "raised") <=>
              /\ n > 0
              /\ func_log[n] # "success"
              /\ (func_log[n] \in exceptions => n = max_retries + 1)
        /\ (retry_pc = "raised") =>
              retry_raised = [kind |-> func_log[n], invocation |-> n]
        /\ (retry_pc # "raised") => retry_raised = NoException

\* Every one of three invocations failed with a matching exception while
\* another kind would not have matched, and the third failure was raised.
C12_Witness ==
    /\ max_retries = 2
    /\ exceptions = {"ConnectionError"}
    /\ retry_pc = "raised"
    /\ Len(func_log) = 3
    /\ retry_raised = [kind |-> "ConnectionError", invocation |-> 3]

(***************************************************************************)
(* Properties of ParallelExecutor.execute_parallel.                        *)
(***************************************************************************)
\* The task of the submitted list whose result the map holds under name n:
\* the last one in priority order (the only one when names are distinct).
Holder(n) ==
    CHOOSE i \in DOMAIN batch :
        /\ batch[i].name = n
        /\ \A j \in DOMAIN batch : batch[j].name = n => j <= i

\* C13: no exception leaves execute_parallel; the map it returns has
\* exactly the names of the submitted tasks as keys; under each name it
\* holds the task's return value when the task returned, and an error
\* entry with the exception's message when the task raised or ran into its
\* timeout, whatever the other tasks of the batch ended with.
C13_FailuresIsolated ==
    /\ exec_pc # "raised"
    /\ exec_raised = Pending
    /\ exec_pc = "returned" =>
          /\ DOMAIN exec_result = {submitted[i].name : i \in DOMAIN submitted}
          /\ \A i \in DOMAIN coroutines : coroutines[i] # Pending
          /\ \A n \in DOMAIN exec_result :
                LET r == coroutines[Holder(n)]
                    t == batch[Holder(n)]
                IN  /\ r.of = t.id
                    /\ r.kind = "value" => exec_result[n] = Value(t.id)
                    /\ r.kind = "Exception" =>
                          exec_result[n] = Error(<<"message", t.id>>)
                    /\ r.kind = "TimeoutError" => exec_result[n] = Error(<<"">>)

\* A batch of two tasks, reordered by priority, has returned: one ran into
\* its timeout and the other has its own value in the map.
C13_Witness ==
    /\ exec_pc = "returned"
    /\ Len(batch) = 2
    /\ batch[1].name # batch[2].name
    /\ batch[1].id = 2
    /\ coroutines[1].kind = "TimeoutError"
    /\ coroutines[2].kind = "value"
    /\ exec_result[batch[2].name] = Value(1)
    /\ exec_result[batch[1].name].error

(***************************************************************************)
(* Properties of EnhancedAgentManager.                                     *)
(***************************************************************************)
\* C14: a call of execute_agent to which the cache answered with an entry
\* for agent:<name>:latest returns the value of that entry and never enters
\* the agent's code, whatever its context; a call that found no client
\* reads nothing from the cache, enters the agent's code and does not end
\* with an error of the cache.
C14_CacheFirst ==
    \A c \in EnhCallIds :
        LET r == ecalls[c]
        IN  /\ r.cached # NoEntry =>
                  /\ r.pc = "returned"
                  /\ r.result = r.cached.json
                  /\ ~r.ran
            /\ r.client_seen = "None" =>
                  /\ r.cached = NoEntry
                  /\ r.ran
                  /\ r.pc \in {"analyzing", "returned", "raised", "timeout"}
                  /\ r.raised # "ConnectionError"

\* A call got from the cache the analysis that a call with another context
\* had made.
C14_Witness ==
    \E c, d \in EnhCallIds :
        /\ ecalls[c].via = "single"
        /\ ecalls[c].pc = "returned"
        /\ ecalls[c].cached # NoEntry
        /\ ecalls[c].result = AgentResult("vault-analyzer", d)
        /\ ecalls[d].context # ecalls[c].context
        /\ ~ecalls[c].ran

(***************************************************************************)
(* Properties of the primary memory store.                                 *)
(***************************************************************************)
\* The store_memory calls for (a, t) that returned a path.
Succeeded(a, t) ==
    {c \in MemStoreIds : /\ mstores[c].pc = "returned"
                          /\ mstores[c].path # NoPath
                          /\ mstores[c].agent = a /\ mstores[c].type = t}

\* C15: a recall_memories(agent, type, limit) made after a store_memory for
\* (agent, type) has succeeded returns at once, without a search call, the
\* last min(limit, length) entries of the bucket in the order they were
\* appended; the bucket holds every entry stored so far for the key, so the
\* latest one is the last entry returned.
C15_RecallFromCache ==
    [][(nrecalls' = nrecalls + 1
            /\ Succeeded(recall'.agent, recall'.type) # {}) =>
        LET b == cache[MemKey(recall'.agent, recall'.type)]
            k == IF recall'.limit < Len(b) THEN recall'.limit ELSE Len(b)
        IN  /\ recall'.pc = "returned"
            /\ ~recall'.searched
            /\ {b[i].content : i \in DOMAIN b}
                   = Succeeded(recall'.agent, recall'.type)
            /\ k >= 1
            /\ recall'.result = [i \in 1 .. k |-> b[Len(b) - k + i]]
            /\ recall'.result[k] = b[Len(b)]]_vars

\* With a client configured, a recall with limit 2 got the last two of
\* three cached entries and made no search call.
C15_Witness ==
    /\ memory_client = "client"
    /\ recall.pc = "returned"
    /\ ~recall.searched
    /\ recall.limit = 2
    /\ Len(cache[MemKey(recall.agent, recall.type)]) = 3
    /\ Len(recall.result) = 2
    /\ recall.result[1].content < recall.result[2].content

\* C16: a store_memory whose write raised returns "" and no exception, and
\* the cache holds no entry for it; without a client every store_memory
\* returns its folder/title and its entry is in the bucket of its (agent,
\* type); every entry of the cache comes from a store whose write did not
\* fail.
C16_CacheOnlyAfterWrite ==
    /\ \A c \in MemStoreIds :
          LET r == mstores[c]
              b == cache[MemKey(r.agent, r.type)]
              held == {i \in DOMAIN b : b[i].content = c}
          IN  r.pc = "returned" =>
                /\ r.raised = "none"
                /\ r.write = "failed" => (r.path = NoPath /\ held = {})
                /\ r.write # "failed" =>
                      /\ r.path = MemPath(r.agent, r.type, r.timestamp)
                      /\ Cardinality(held) = 1
                /\ memory_client = "None" => r.write = "none"
    /\ \A k \in MemKeys : \A i \in DOMAIN cache[k] :
          LET r == mstores[cache[k][i].content]
          IN  /\ r.pc = "returned" /\ r.write # "failed"
              /\ k = MemKey(r.agent, r.type)
              /\ cache[k][i].path = r.path

\* One write failed and a later one went through: the cache holds the
\* second entry only.
C16_Witness ==
    \E c, d \in MemStoreIds :
        /\ c < d
        /\ mstores[c].type = mstores[d].type
        /\ mstores[c].pc = "returned" /\ mstores[c].write = "failed"
        /\ mstores[c].path = NoPath
        /\ mstores[d].pc = "returned" /\ mstores[d].write = "ok"
        /\ Len(cache[MemKey(mstores[d].agent, mstores[d].type)]) = 1


\* C17: if the vault snapshot cannot be loaded (every invocation of its step
\* failed), initialize_all_services has raised a ConfigurationError, no
\* step after the vault step was attempted, no flag is set, the manager is
\* not initialized and get_service raises a ConfigurationError for each name.
C17_VaultFailureAborts ==
    ("vault_data" \in failed) =>
        /\ boot.pc = "raised"
        /\ boot.raised = "ConfigurationError"
        /\ boot.attempted = <<"vault_data">>
        /\ ~services_initialized
        /\ \A s \in ServiceNames : ~service_status[s]
        /\ \A k \in ServiceKeys : get_service(k).error = "ConfigurationError"

\* The vault step failed three times (max_retries = 2) and the bootstrap
\* has raised.
C17_Witness ==
    /\ "vault_data" \in failed
    /\ boot.pc = "raised"
    /\ boot.attempt = StepRetries("vault_data")

\* C18: if the lexical backend was reached on neither host (every invocation
\* of its step failed) while the vault snapshot loaded, the bootstrap does
\* not raise, the flag of the lexical service is false and the service is in
\* the degraded list, the steps attempted are those of the order with the
\* semantic index next, and at its end all five steps have been attempted in
\* that order and the manager is initialized.
C18_LexicalFailureDegrades ==
    ("opensearch" \in failed) =>
        /\ "vault_data" \notin failed
        /\ service_status["vault_data"]
        /\ boot.pc \in {"attempting", "sleeping", "done"}
        /\ boot.raised = "none"
        /\ ~service_status["opensearch"]
        /\ "opensearch" \in get_health_status.degraded_services
        /\ Len(boot.attempted) >= 3
        /\ boot.attempted = SubSeq(initialization_order, 1, Len(boot.attempted))
        /\ (boot.pc = "done") =>
              /\ boot.attempted = initialization_order
              /\ services_initialized
              /\ get_health_status.initialized

\* The bootstrap ended with the lexical backend unreachable and the three
\* later steps successful.
C18_Witness ==
    /\ "opensearch" \in failed
    /\ boot.pc = "done"
    /\ boot.attempted = initialization_order
    /\ service_status["semantic_index"]
    /\ service_status["ml_models"]
    /\ services["redis_client"] = "object"
    /\ services_initialized

\* C19: once startup_event has ended, the application serves unless the
\* vault step failed: the failure of any other step leaves it serving, and
\* only a failure of the vault step prevents the startup.
C19_StartupSurvivesDegraded ==
    (app \in {"serving", "failed"}) =>
        ((app = "failed") <=> ("vault_data" \in failed))

\* C20: after initialize_all_services the flag of a service is true only if
\* its step succeeded, and every service whose step failed is in the
\* degraded list of get_health_status.
C20_FlagsTellSuccess ==
    (boot.pc = "done") =>
        /\ \A s \in ServiceNames : service_status[s] => s \notin failed
        /\ failed \subseteq get_health_status.degraded_services


(***************************************************************************)
(* Properties of context assembly.                                         *)
(***************************************************************************)
\* The sum of floor(character_count / 4) over the items of a context, the
\* characters counted on the item's content.
RECURSIVE SumTokens(_)
SumTokens(context) ==
    IF context = <<>> THEN 0
    ELSE (JoinedLength(Head(context).content) \div 4) + SumTokens(Tail(context))

C22_PrefixUntilOverflow ==
    (/\ assembly.out.status = "returned"
     /\ assembly.req.strategy \in {"full_docs", "smart_chunks"}) =>
        LET full == assembly.req.strategy = "full_docs"
                        \/ assembly.req.include_full_docs
            tried == IF full THEN FullDocuments(assembly.out.ranked)
                     ELSE Chunks(assembly.out.ranked)
            n == Len(assembly.out.context)
        IN  /\ n <= Len(tried)
            /\ \A i \in 1 .. n :
                  /\ assembly.out.context[i].title = tried[i].title
                  /\ assembly.out.context[i].content = tried[i].content
            /\ n < Len(tried) =>
                  assembly.out.tokens_used
                      + (JoinedLength(tried[n + 1].content) \div 4)
                  > assembly.req.max_tokens

\* The first ranked chunk is too large for the budget and a later chunk
\* would fit alone: nothing is accepted.
C22_Witness ==
    /\ assembly.out.status = "returned"
    /\ assembly.req.strategy = "smart_chunks"
    /\ ~assembly.req.include_full_docs
    /\ Len(assembly.out.ranked) = 2
    /\ vault[assembly.out.ranked[1]].chunk \div 4 > assembly.req.max_tokens
    /\ vault[assembly.out.ranked[2]].chunk \div 4 <= assembly.req.max_tokens
    /\ assembly.out.context = <<>>
    /\ assembly.out.tokens_used = 0

\* C23: a request with strategy "hierarchical" gets no context item and
\* tokens_used = 0, whatever its other fields.
C23_HierarchicalEmpty ==
    (/\ assembly.out.status = "returned"
     /\ assembly.req.strategy = "hierarchical") =>
        /\ assembly.out.context = <<>>
        /\ assembly.out.tokens_used = 0

\* C24: the ranking holds each id of the hits once, by descending sum of
\* (10 - rank), and ids of equal sums are in the order in which they first
\* appear in the combined hit list.
C24_TiesFirstSeen ==
    (assembly.out.status = "returned") =>
        LET hits == assembly.out.hits
            ranked == assembly.out.ranked
            first(id) == CHOOSE i \in DOMAIN hits :
                            /\ hits[i].id = id
                            /\ \A j \in 1 .. i - 1 : hits[j].id # id
        IN  /\ {ranked[i] : i \in DOMAIN ranked} = {hits[i].id : i \in DOMAIN hits}
            /\ \A i, j \in DOMAIN ranked :
                  i < j =>
                     \/ Score(hits, ranked[i]) > Score(hits, ranked[j])
                     \/ /\ Score(hits, ranked[i]) = Score(hits, ranked[j])
                        /\ first(ranked[i]) < first(ranked[j])


(***************************************************************************)
(* Properties of the /generate handler.                                    *)
(***************************************************************************)
\* C25: when an invocation of the tool found no executable, the handler
\* has gone on to the fallback: it invokes the tool with --context and a
\* prompt of the system prompt and the query, answers 200 when that
\* invocation succeeds, and has deleted the temporary file once it is done.
C25_FallbackWhenNotFound ==
    (\E i \in DOMAIN generation.runs :
        /\ generation.runs[i].context = "stdin"
        /\ generation.runs[i].outcome = "builtins.FileNotFoundError") =>
        LET last == generation.runs[Len(generation.runs)]
        IN  /\ last.context = "--context"
            /\ last.input = "system_prompt+query"
            /\ generation.pc = "done" =>
                  /\ generation.tmp = "deleted"
                  /\ last.outcome = "ok" => generation.status = 200


(***************************************************************************)
(* Properties of the scheduler's entry points when the dispatch raises.    *)
(***************************************************************************)
\* C26: a call of execute_scheduled_agent or of trigger_agent whose dispatch
\* raised lets no exception out and returns a response with status
\* "failed"; that response is in the execution history (looked at before a
\* later call can have evicted it).
C26_DispatchFailureSynthesized ==
    \A c \in CallIds :
        (calls[c].pc = "returned" /\ calls[c].outcome = "dispatch_raised") =>
            /\ calls[c].raised = "none"
            /\ calls[c].status = "failed"
            /\ c = ncalls =>
                  \E i \in DOMAIN execution_history :
                     /\ execution_history[i].call = c
                     /\ execution_history[i].status = "failed"


(***************************************************************************)
(* Properties of ParallelBasicMemory.                                      *)
(***************************************************************************)
\* C27: the map store_agent_patterns_parallel returns holds, for each entry
\* type, true exactly when the tool invocation of that type's group exited
\* with code 0.
C27_ReportsExitCode ==
    (pattern_store.pc = "returned") =>
        \A i \in DOMAIN pattern_store.types :
            pattern_store.results[i] = (pattern_store.outcomes[i] = "exit_0")


(***************************************************************************)
(* Properties of HealthChecker.                                            *)
(***************************************************************************)
\* C28: the probe is invoked at most once per window of
\* health_check_interval seconds: two invocations of the probe are at least
\* that far apart, whatever the earlier one ended with.
C28_OneProbePerWindow ==
    \A i, j \in DOMAIN health.probes :
        i < j => health.probes[j] - health.probes[i] >= health_check_interval


(***************************************************************************)
(* Properties of the /synthesize_notes handler.                            *)
(***************************************************************************)
\* C29: the generation tool is invoked only when at least two of the
\* requested note references resolve to documents of the vault, and no
\* synthesis is answered with fewer.
C29_SynthesisNeedsTwo ==
    LET resolved == Len(synthesis.notes_content)
    IN  /\ synthesis.invoked => resolved >= 2
        /\ synthesis.status = 200 => resolved >= 2


(***************************************************************************)
(* Properties of the circuit breaker of the lexical backend's bootstrap.   *)
(***************************************************************************)
\* C30: the failed host probes of the lexical-backend step are counted by
\* the "opensearch" breaker across hosts and attempts: once two invocations
\* of the step have failed (four failed probes, threshold 3), and so once
\* the step is given up, get_health_status reports the breaker as open.
C30_BootstrapBreakerOpens ==
    (\/ "opensearch" \in failed
     \/ /\ boot.step > 0
        /\ initialization_order[boot.step] = "opensearch"
        /\ boot.attempt >= 2) =>
        get_health_status.circuit_breakers["opensearch"] = "open"


(***************************************************************************)
(* Properties of the base manager for a disabled agent.                    *)
(***************************************************************************)
\* C40: a call of execute_agent for an agent of the roster configured with
\* enabled = false returns a response with status "disabled", launches no
\* execution and records nothing in the history.
C40_DisabledAgentAnswer ==
    \A c \in CallIds :
        (/\ calls[c].pc = "returned"
         /\ calls[c].origin = "direct"
         /\ calls[c].name \in Roster
         /\ ~Enabled(calls[c].name)) =>
            /\ calls[c].status = "disabled"
            /\ ~calls[c].launched
            /\ \A i \in DOMAIN execution_history : execution_history[i].call # c


\* C36: a matching failure of a call that ends while the breaker is
\* HalfOpen goes through _on_failure like one in Closed: the counter, still
\* at or above the threshold, is incremented, the breaker is Open again and
\* the last-failure time is the time of this failure.
C36_HalfOpenFailureReopens ==
    [][\A c \in Callers :
          (/\ state = "half_open"
           /\ wrapped[c].pc = "running"
           /\ wrapped'[c].pc = "idle"
           /\ wrapped'[c].result = "matching") =>
              /\ failure_count >= failure_threshold
              /\ failure_count' = failure_count + 1
              /\ state' = "open"
              /\ last_failure_time' = now]_vars

\* A probe admitted in HalfOpen has failed after the time of the failure
\* that opened the breaker: the breaker is Open with the counter above the
\* threshold and the last-failure time refreshed.
C36_Witness ==
    /\ state = "open"
    /\ failure_count > failure_threshold
    /\ last_failure_time = now
    /\ now >= recovery_timeout
    /\ \E c \in Callers :
          /\ wrapped[c].pc = "idle"
          /\ wrapped[c].entered = "half_open"
          /\ wrapped[c].result = "matching"

\* C37: the breaker leaves Open only by becoming HalfOpen, which takes the
\* recovery timeout: no step takes it from Open to Closed, and the failure
\* counter is not reset while it is Open.
C37_OpenLeavesByHalfOpen ==
    [][state = "open" =>
          /\ state' \in {"open", "half_open"}
          /\ failure_count' >= failure_count
          /\ state' = "half_open" =>
                /\ last_failure_time # None
                /\ now - last_failure_time >= recovery_timeout]_vars


\* C33: a context-aware loop never fires inside the debounce window of its
\* previous firing.  In a step where the loop calls execute_scheduled_agent
\* and has fired before, the time of this trigger is at least debounce_ms
\* after the time of the previous one; a loop that resumes inside the window
\* starts no call and sleeps again, to the end of the window when a trigger
\* was detected, for a second when none was.
C33_Debounce ==
    [][\A l \in Loops :
          (/\ Trigger(l) = "context_aware"
           /\ loops[l].pc = "sleeping"
           /\ ~loops[l].cancel_requested
           /\ loops'[l] # loops[l]
           /\ loops[l].last_trigger # None) =>
              IF (now - loops[l].last_trigger) * 1000 >= debounce_ms
              THEN TRUE
              ELSE /\ ncalls' = ncalls
                   /\ loops'[l].pc = "sleeping"
                   /\ loops'[l].last_trigger = loops[l].last_trigger
                   /\ loops'[l].wake \in
                         {now + 1,
                          loops[l].last_trigger + debounce_ms \div 1000}]_vars

\* A context-aware loop has fired twice: it awaits its second call, and the
\* first was triggered at least debounce_ms before.
C33_Witness ==
    \E l \in Loops :
        /\ Trigger(l) = "context_aware"
        /\ loops[l].pc = "firing"
        /\ loops[l].last_trigger # None
        /\ loops[l].current_time # None
        /\ (loops[l].current_time - loops[l].last_trigger) * 1000 >= debounce_ms


\* C38: with a client, execute_agents_parallel has written under
\* agent:<name>:latest every result of the map it returns, the error
\* entries of agents that raised or timed out like the others; and a call
\* of execute_agent to which the cache answers with an error entry returns
\* that entry without entering the agent's code.
C38_ErrorsCachedAndServed ==
    [][/\ (par.pc = "caching" /\ par'.pc \in {"caching", "returned"}
                              /\ par'.next = par.next + 1) =>
              LET n == par.items[par.next]
              IN  /\ redis'[cache_key(n)] = json_dumps(par.results[n])
                  /\ json_loads(redis'[cache_key(n)]) = par.results[n]
       /\ (par.pc # "returned" /\ par'.pc = "returned"
           /\ redis_client = "client") =>
              par'.next = Len(par'.items) + 1
       /\ \A c \in EnhCallIds :
              (/\ ecalls[c].pc = "get"
               /\ ecalls'[c].pc \notin {"get", "raised", "timeout"}
               /\ redis[cache_key(ecalls[c].name)].json.kind = "error") =>
                  /\ ecalls'[c].pc = "returned"
                  /\ ecalls'[c].result = redis[cache_key(ecalls[c].name)].json
                  /\ ecalls'[c].result.kind = "error"
                  /\ ~ecalls'[c].ran]_vars

\* The analysis failed in a parallel call, its error entry was cached, and
\* a later single call for vault-analyzer got that entry back without
\* running the analysis.
C38_Witness ==
    \E c, d \in EnhCallIds :
        /\ ecalls[d].via = "parallel"
        /\ ecalls[d].name = "vault-analyzer"
        /\ ecalls[d].pc \in {"raised", "timeout"}
        /\ par.pc = "returned"
        /\ par.names = <<"vault-analyzer">>
        /\ par.results["vault-analyzer"].kind = "error"
        /\ ecalls[c].via = "single"
        /\ ecalls[c].name = "vault-analyzer"
        /\ ecalls[c].pc = "returned"
        /\ ecalls[c].result = par.results["vault-analyzer"]
        /\ ~ecalls[c].ran

C31_RecurringTaskDetection ==
    LET last == learning.last
        similar == similar_tasks(last.past_executions, last.task)
        others == Len(similar) - (IF last.execution_path # "" THEN 1 ELSE 0)
    IN  last.task # <<>> =>
            /\ last.patterns # <<>> <=> others > 3
            /\ \A i \in DOMAIN last.patterns :
                  last.patterns[i].confidence =
                      (IF last.patterns[i].count < 10
                       THEN last.patterns[i].count ELSE 10)

\* C32: a call of share_learning_between_agents passes to store_memory for
\* the target no memory of the source that was stored with the tag
\* "user-specific" or whose content mentions "agent-specific", passes every
\* other recalled memory of the requested types, and counts them per type.
C32_SharesOnlyShareable ==
    LET last == sharing.last
        Tagged(m) == \E k \in DOMAIN sharing.notes[m.note].tags :
                        sharing.notes[m.note].tags[k] = "user-specific"
        Specific(m) == sharing.notes[m.note].agent_specific
        Eligible(m) == ~Tagged(m) /\ ~Specific(m)
    IN  last.pc = "done" =>
            \A i \in DOMAIN last.types :
                /\ \A j \in DOMAIN last.restored[i] :
                      Eligible(last.restored[i][j])
                /\ last.restored[i] = SelectSeq(last.recalled[i], Eligible)
                /\ last.shared_count[i] = Len(last.restored[i])

\* C34: the tag clusters returned by the tag analysis are pairwise
\* disjoint, and at most 5 are returned.
C34_ClustersDisjoint ==
    tagging.pc = "done" =>
        /\ Len(tagging.tag_clusters) <= 5
        /\ \A i, j \in DOMAIN tagging.tag_clusters :
              i # j => tagging.tag_clusters[i] \cap tagging.tag_clusters[j] = {}

\* C35: the insight derivation emits the document-count sentence whenever
\* the statistics result reports more than 100 documents, and likewise the
\* orphan sentence for more than 5 orphans, the theme sentence when there is
\* a top emerging theme and the connectivity sentence for a connectivity
\* below 0.5; between 0 and 4 sentences are produced.
C35_InsightSentences ==
    LET r == derivation.results
        out == derivation.outcome
        Emitted(s) == \E i \in DOMAIN out.insights : out.insights[i] = s
    IN  (derivation.pc = "done" /\ out.raised = "none") =>
            /\ (~r.statistics.error /\ r.statistics.value > 100) =>
                   Emitted("total_notes")
            /\ (~r.orphaned_notes.error /\ r.orphaned_notes.len > 5) =>
                   Emitted("orphaned_notes")
            /\ (~r.emerging_themes.error /\ r.emerging_themes.len > 0) =>
                   Emitted("emerging_theme")
            /\ (~r.quality_metrics.error /\ r.quality_metrics.value < 5) =>
                   Emitted("connectivity")
            /\ Len(out.insights) <= 4
====
